---------------------------- MODULE Spec2Model ----------------------------
(***************************************************************************)
(* A model of the centralized relay's chain providers:                     *)
(*   - the wasm provider's transaction submission (Route, call,            *)
(*     sendMessage, handleSequence, prepareAndPushTxToMemPool),            *)
(*   - the EVM provider's Route and its route lock,                        *)
(*   - the wasm transaction-result waiter (subscribe and poll streams),    *)
(*   - the wasm Listener with its catch-up pipeline and subscriptions,     *)
(*   - the relay coordinator's dispatcher (store and cursor).              *)
(* Each part has its own next-state relation and specification over the    *)
(* shared variable tuple; the parts do not share mutable state.            *)
(***************************************************************************)
EXTENDS Integers, Sequences, FiniteSets, TLC

(***************************************************************************)
(* Bounds of the model.                                                    *)
(***************************************************************************)
\* the wallet sequence the provider holds after construction
InitSeq == 1
\* transactions signed with the same wallet outside this provider
MaxExternal == 1
\* configured gas bounds of the wasm provider (cfg.MinGasAmount, cfg.MaxGasAmount)
MinGasAmount == 1
MaxGasAmount == 1
\* receipt polls of the EVM WaitForResults before it gives up (MaxTxRetry)
MaxTxRetry == 2
\* configured gas bounds of the EVM provider (cfg.GasMin, cfg.GasLimit)
GasMin == 1
GasLimit == 1
\* maxWaitInterval of a transaction wait, in clock ticks
MaxWaitTicks == 1
\* height of the source chain when the relay starts
InitHead == 5
\* blocks the source chain commits while the relay runs
MaxNewBlocks == 1
\* blocks with a matching transaction among the first InitHead
MaxEvents == 2
\* runtime.NumCPU() of the host
NumCPU == 2
\* crashes of the relay process
MaxCrashes == 1

\* the two concurrent callers of one wasm provider (Route or a control operation)
Routes == {1, 2}

\* relayer/events: the event kinds a message can carry, and one unknown kind
KnownEvents ==
    {"EmitMessage", "CallMessage", "RevertMessage", "SetAdmin",
     "SetFee", "ClaimFee", "ExecuteRollback"}
EventKinds == KnownEvents \cup {"Unknown"}
\* the event kinds the control operations RevertMessage, SetFee, ClaimFee,
\* SetAdmin and ExecuteRollback put in the message they hand to call
ControlEvents == {"RevertMessage", "SetFee", "ClaimFee", "SetAdmin", "ExecuteRollback"}
\* the messages an operation can be called with
MessagesOf(op) == IF op = "route" THEN EventKinds ELSE ControlEvents

\* gas amounts the transaction factory can end up with
GasValues == (MinGasAmount - 1)..(MaxGasAmount + 1)

VARIABLES
    \* ---- wasm provider, transaction submission
    wSeq,       \* p.wallet sequence (the cached account sequence)
    chainSeq,   \* the account sequence the chain expects next
    extTx,      \* number of external transactions of the wallet so far
    rt,         \* per Route caller: position and locals
    bcast,      \* BroadcastTx calls in order: [by, seq, contract, ok, err, addr]
    \* ---- EVM providers, Route
    globalRouteLock,  \* 0 when free, else the caller holding it
    ev,               \* per EVM Route caller: position and locals
    evSent,           \* transactions sent by the EVM client: [by, prov, evt, method, addr]
    \* ---- wasm provider, waiting for the result of one broadcast transaction
    strategy,     \* "subscribe" (subscribeTxResultStream) or "poll" (pollTxResultStream)
    twPc,         \* the stream goroutine: "start", "loop", "sending", "done"
    twMsg,        \* the TxResultChan value the goroutine is sending
    txResChan,    \* the result channel: [got: values received, closed]
    wfPc,         \* the receiver (waitForTxResult): "ranging", "returned", "panicked"
    callbacks,    \* calls of the Route callback: [err, of]
    clock,        \* time since the wait started, in ticks
    ctxDone,      \* the parent ctx is cancelled
    included,     \* "no", or how the chain included the transaction: "ok", "failed"
    eventQueued,  \* the node pushed the Tx event on the open subscription
    \* ---- wasm provider, Listener and catch-up pipeline; the relay coordinator
    head,         \* latest height of the source chain
    blocks,       \* per height: "none", "msg" (one matching event), "bad" (undecodable log)
    cfgStart,     \* p.cfg.StartHeight
    cursor,       \* the persisted last saved height of the source chain
    store,        \* persisted messages, each named by the height of its event
    ls,           \* the Listener call: position, latestHeight, startHeight, subscription
    hs,           \* getHeightStream's goroutine: [from, to]
    wk,           \* per runBlockQuery worker: position, heightRange, messages
    subQueue,     \* Tx events the node pushed on the open subscriptions (heights)
    co,           \* the dispatcher: position and the BlockInfo in hand
    emitted,      \* BlockInfos sent on blockInfoChan in this run: [height, msgs, by]
    unfetched,    \* sub-ranges (by Start) whose fetch failed in this run
    origin,       \* startHeight of the first Listener run (0 before it)
    crashes,      \* process crashes so far
    \* ---- wasm provider, event decoder
    decIn,        \* the eventsList given to ParseMessageFromEvents
    decOut,       \* what the call returned: [done, err, msgs]
    \* ---- wasm provider, the transactions of one height range
    resultTxList,   \* the transactions: [height, log]
    fetchPc,        \* the catch-up worker: "fetch", "sent", "skipped"
    subNext,        \* the next transaction the subscription receives
    blockInfoChan,  \* BlockInfos sent: [by, height, msgs, srcs]; srcs[k] is
                    \* the transaction msgs[k] comes from
    \* ---- Listener entry (wasm and sui)
    entry,          \* the call: [chain, cfg, latestHeight, lastSavedHeight]
    started,        \* its outcome: [done, startHeight, err]
    \* ---- wasm provider, fetchBlockMessages for one sub-range
    totalPages,     \* per event filter: the result pages its search has
    fb,             \* the call: position, filter, page, res, messages, failed calls
    \* ---- wasm provider, getHeightStream and getBlockInfoStream
    sDone,          \* the done channel is closed
    sHeights,       \* the height stream goroutine: [next, to, closed]
    sWorker,        \* the block-info worker: [pc, left]
    sConsumer,      \* a consumer receives from the worker's output channel
    \* ---- the root context of the relay
    rootCtx,        \* the ctx given to the wasm Listener is cancelled
    \* ---- provider construction from a chain configuration
    chainCfg,       \* the configuration: [chain, minGas, maxGas, contractsValid]
    prv,            \* the provider: [pc, routes, gas, rejected]
    \* ---- the relay coordinator's retry/finality loop for one destination
    relay,          \* [up, latest: latest_height(src), restarts]
    inflight,       \* the store, per message key: [present, height, observed,
                    \* retry, cooling, pc, stale]
    received,       \* per key: the destination's receipt of the message
    routeLog,       \* per key, its last route call: [called, height, observed,
                    \* restored, latest]
    \* ---- sui provider, GenerateTxDigests
    cpIn,           \* checkpointResponses: [seq, txs]
    maxDigests,     \* maxDigestsPerItem
    dgOut,          \* the call's result: [done, packets]
    \* ---- wasm provider, one runBlockQuery call on a host with numCPU CPUs
    pq,             \* [numCPU, from, to, next, pc, workers, taken, fetched]
    pw              \* per worker: [pc, start]

wasmVars == <<wSeq, chainSeq, extTx, rt, bcast>>
evmVars == <<globalRouteLock, ev, evSent>>
waitVars == <<strategy, twPc, twMsg, txResChan, wfPc, callbacks, clock, ctxDone,
              included, eventQueued>>

\* what the steps of one part leave alone: the variables of the other parts
decodeVars == <<decIn, decOut>>
fetchVars == <<resultTxList, fetchPc, subNext, blockInfoChan>>
startVars == <<entry, started>>
searchVars == <<totalPages, fb>>
streamVars == <<sDone, sHeights, sWorker, sConsumer>>
cancelVars == <<rootCtx>>
configVars == <<chainCfg, prv>>
relayVars == <<relay, inflight, received, routeLog>>
digestVars == <<cpIn, maxDigests, dgOut>>
pipeVars == <<pq, pw>>
listenVars == <<head, blocks, cfgStart, cursor, store, ls, hs, wk, subQueue, co,
                emitted, unfetched, origin, crashes>>
notWasm == <<evmVars, waitVars, listenVars, decodeVars, fetchVars, startVars, searchVars,
            streamVars, cancelVars, configVars,
            relayVars, digestVars, pipeVars>>
notEvm == <<wasmVars, waitVars, listenVars, decodeVars, fetchVars, startVars, searchVars,
            streamVars, cancelVars, configVars,
            relayVars, digestVars, pipeVars>>
notWait == <<wasmVars, evmVars, listenVars, decodeVars, fetchVars, startVars, searchVars,
            streamVars, cancelVars, configVars,
            relayVars, digestVars, pipeVars>>
notListen == <<wasmVars, evmVars, waitVars, decodeVars, fetchVars, startVars, searchVars,
            streamVars, cancelVars, configVars,
            relayVars, digestVars, pipeVars>>
notDecode == <<wasmVars, evmVars, waitVars, listenVars, fetchVars, startVars, searchVars,
            streamVars, cancelVars, configVars,
            relayVars, digestVars, pipeVars>>
notFetch == <<wasmVars, evmVars, waitVars, listenVars, decodeVars, startVars, searchVars,
            streamVars, cancelVars, configVars,
            relayVars, digestVars, pipeVars>>
notStart == <<wasmVars, evmVars, waitVars, listenVars, decodeVars, fetchVars, searchVars,
            streamVars, cancelVars, configVars,
            relayVars, digestVars, pipeVars>>
notSearch == <<wasmVars, evmVars, waitVars, listenVars, decodeVars, fetchVars, startVars,
              streamVars, cancelVars, configVars,
            relayVars, digestVars, pipeVars>>
notStream == <<wasmVars, evmVars, waitVars, listenVars, decodeVars, fetchVars, startVars,
              searchVars, cancelVars, configVars,
            relayVars, digestVars, pipeVars>>
\* what the steps on the root context leave alone, the Listener's part aside
notCancel == <<wasmVars, evmVars, waitVars, decodeVars, fetchVars, startVars, searchVars,
              streamVars, configVars,
            relayVars, digestVars, pipeVars>>
notConfig == <<wasmVars, evmVars, waitVars, listenVars, decodeVars, fetchVars, startVars,
              searchVars, streamVars, cancelVars,
            relayVars, digestVars, pipeVars>>

notRelay == <<wasmVars, evmVars, waitVars, listenVars, decodeVars, fetchVars, startVars,
             searchVars, streamVars, cancelVars, configVars, digestVars, pipeVars>>
notDigest == <<wasmVars, evmVars, waitVars, listenVars, decodeVars, fetchVars, startVars,
              searchVars, streamVars, cancelVars, configVars, relayVars, pipeVars>>
notPipe == <<wasmVars, evmVars, waitVars, listenVars, decodeVars, fetchVars, startVars,
            searchVars, streamVars, cancelVars, configVars, relayVars, digestVars>>

vars == <<wasmVars, evmVars, waitVars, listenVars, decodeVars, fetchVars, startVars,
          searchVars, streamVars, cancelVars, configVars,
            relayVars, digestVars, pipeVars>>

(***************************************************************************)
(* wasm provider: Route, call, sendMessage, handleSequence,                *)
(* prepareAndPushTxToMemPool.  Route takes no lock: every read and write   *)
(* of the wallet sequence is a step of its own.                            *)
(***************************************************************************)
IdleRoute ==
    [pc |-> "idle", op |-> "-", evt |-> "-", src |-> "", dst |-> "",
     gas |-> 0, seq |-> 0,
     tries |-> 0, refreshed |-> FALSE, acc |-> 0, tmp |-> 0, cb |-> "none",
     err |-> "none"]

\* a switch that sends ExecuteRollback to the connection contract
ContractOfRollbackMisplaced(evt) ==
    CASE evt \in {"EmitMessage", "RevertMessage", "SetAdmin", "ClaimFee", "SetFee",
                  "ExecuteRollback"}
            -> "connection"
      [] evt \in {"CallMessage"} -> "xcall"
      [] OTHER -> "none"

\* call: the contract an event kind is sent to (the switch in call)
ContractOf(evt) ==
    CASE evt \in {"EmitMessage", "RevertMessage", "SetAdmin", "ClaimFee", "SetFee"}
            -> "connection"
      [] evt \in {"CallMessage", "ExecuteRollback"} -> "xcall"
      [] OTHER -> "none"

\* a gas check that leaves out the upper bound
GasRejectedNoMax(g) == g < MinGasAmount

\* getRawContractMessage: the address argument of the body it builds
\* (SetAdmin: NewExecSetAdmin(message.Dst); the other bodies carry none)
RawAddress(r) == IF r.evt = "SetAdmin" THEN r.dst ELSE ""

\* the addresses a caller hands to SetAdmin
Addresses == {"addr1", "addr2"}
\* the address a call carries: SetAdmin(address) puts it in the message
AddressesOf(op, evt) ==
    IF op = "control" /\ evt = "SetAdmin" THEN Addresses ELSE {""}

\* prepareAndPushTxToMemPool: the gas bounds check
GasRejected(g) == g < MinGasAmount \/ g > MaxGasAmount

InitWasm ==
    /\ wSeq = InitSeq
    /\ chainSeq = InitSeq
    /\ extTx = 0
    /\ rt = [i \in Routes |-> IdleRoute]
    /\ bcast = <<>>

\* Route (or a control operation) is called with a message; call builds the raw
\* message and picks the contract, failing on an unknown event kind.
RouteStart(i, op, evt, addr) ==
    /\ rt[i].pc = "idle"
    /\ IF ContractOf(evt) = "none"
         THEN rt' = [rt EXCEPT ![i] = [IdleRoute EXCEPT
                        !.pc = "ret_err", !.op = op, !.evt = evt,
                        !.err = "unknown_event"]]
         ELSE rt' = [rt EXCEPT ![i] = [IdleRoute EXCEPT
                        !.pc = "send", !.op = op, !.evt = evt, !.src = addr]]
    /\ UNCHANGED <<wSeq, chainSeq, extTx, bcast, notWasm>>

\* sendMessage: reads the wallet's account number and sequence
sendMessage(i) ==
    /\ rt[i].pc = "send"
    /\ rt' = [rt EXCEPT ![i].pc = "push", ![i].seq = wSeq]
    /\ UNCHANGED <<wSeq, chainSeq, extTx, bcast, notWasm>>

\* a call that takes every error of sendMessage for a sequence mismatch
AfterSendErrorAnyError(r, e) ==
    IF r.tries = 0
      THEN [r EXCEPT !.pc = "refresh", !.tries = 1, !.err = e]
      ELSE [r EXCEPT !.pc = "ret_err", !.tries = r.tries + 1, !.err = e]

\* what call does with the result of a sendMessage that failed
AfterSendError(r, e) ==
    IF e = "wrong_sequence" /\ r.tries = 0
      THEN [r EXCEPT !.pc = "refresh", !.tries = 1, !.err = e]
      ELSE [r EXCEPT !.pc = "ret_err", !.tries = r.tries + 1, !.err = e]

\* what the caller of call does with a successful response
AfterSendOk(r) ==
    IF r.op = "route"
      THEN [r EXCEPT !.pc = "incr_read", !.tries = r.tries + 1, !.err = "none"]
      ELSE [r EXCEPT !.pc = "ret_ok", !.tries = r.tries + 1, !.err = "none"]

\* prepareAndPushTxToMemPool, up to the gas check: the factory or the gas
\* estimate fails, or the gas g the factory ends up with is checked against
\* the configured bounds
pushEstimate(i, g) ==
    /\ rt[i].pc = "push"
    /\ \/ rt' = [rt EXCEPT ![i] = AfterSendError(rt[i], "estimate_failed")]
       \/ /\ GasRejected(g)
          /\ rt' = [rt EXCEPT ![i] = AfterSendError([rt[i] EXCEPT !.gas = g], "gas_bounds")]
       \/ /\ ~GasRejected(g)
          /\ rt' = [rt EXCEPT ![i].pc = "bcast", ![i].gas = g]
    /\ UNCHANGED <<wSeq, chainSeq, extTx, bcast, notWasm>>

\* prepareAndPushTxToMemPool, BroadcastTx: the chain accepts the transaction
\* when its sequence is the one it expects, and answers with the wrong-sequence
\* error otherwise; the broadcast can also fail for another reason
pushBroadcast(i) ==
    /\ rt[i].pc = "bcast"
    /\ \/ /\ rt[i].seq = chainSeq
          /\ chainSeq' = chainSeq + 1
          /\ bcast' = Append(bcast, [by |-> i, seq |-> rt[i].seq,
                                     contract |-> ContractOf(rt[i].evt), ok |-> TRUE,
                                     err |-> "none", addr |-> RawAddress(rt[i])])
          /\ rt' = [rt EXCEPT ![i] = AfterSendOk(rt[i])]
       \/ /\ rt[i].seq # chainSeq
          /\ bcast' = Append(bcast, [by |-> i, seq |-> rt[i].seq,
                                     contract |-> ContractOf(rt[i].evt), ok |-> FALSE,
                                     err |-> "wrong_sequence",
                                     addr |-> RawAddress(rt[i])])
          /\ rt' = [rt EXCEPT ![i] = AfterSendError(rt[i], "wrong_sequence")]
          /\ UNCHANGED chainSeq
       \/ /\ bcast' = Append(bcast, [by |-> i, seq |-> rt[i].seq,
                                     contract |-> ContractOf(rt[i].evt), ok |-> FALSE,
                                     err |-> "broadcast_failed",
                                     addr |-> RawAddress(rt[i])])
          /\ rt' = [rt EXCEPT ![i] = AfterSendError(rt[i], "broadcast_failed")]
          /\ UNCHANGED chainSeq
    /\ UNCHANGED <<wSeq, extTx, notWasm>>

\* a handleSequence that reads the account and does not store its sequence
handleSequenceNotStored(i) ==
    /\ rt[i].pc = "refresh"
    /\ rt' = [rt EXCEPT ![i].pc = "send", ![i].refreshed = TRUE,
                        ![i].acc = chainSeq]
    /\ UNCHANGED <<wSeq, chainSeq, extTx, bcast, notWasm>>

\* handleSequence: reads the account from the chain and stores its sequence
handleSequence(i) ==
    /\ rt[i].pc = "refresh"
    /\ \/ /\ wSeq' = chainSeq
          /\ rt' = [rt EXCEPT ![i].pc = "send", ![i].refreshed = TRUE,
                              ![i].acc = chainSeq]
       \/ /\ rt' = [rt EXCEPT ![i].pc = "ret_err", ![i].err = "refresh_failed"]
          /\ UNCHANGED wSeq
    /\ UNCHANGED <<chainSeq, extTx, bcast, notWasm>>

\* Route: seq := p.wallet.GetSequence() + 1
RouteReadSeq(i) ==
    /\ rt[i].pc = "incr_read"
    /\ rt' = [rt EXCEPT ![i].pc = "incr_write", ![i].tmp = wSeq + 1]
    /\ UNCHANGED <<wSeq, chainSeq, extTx, bcast, notWasm>>

\* Route: p.wallet.SetSequence(seq)
RouteSetSeq(i) ==
    /\ rt[i].pc = "incr_write"
    /\ wSeq' = rt[i].tmp
    /\ rt' = [rt EXCEPT ![i].pc = "wait"]
    /\ UNCHANGED <<chainSeq, extTx, bcast, notWasm>>

\* Route: waitForTxResult runs to its end (modelled step by step below) and
\* Route returns nil
RouteWait(i) ==
    /\ rt[i].pc = "wait"
    /\ \E c \in {"ok", "error", "none"} :
          rt' = [rt EXCEPT ![i].pc = "ret_ok", ![i].cb = c]
    /\ UNCHANGED <<wSeq, chainSeq, extTx, bcast, notWasm>>

\* another signer of the same wallet gets a transaction accepted
ExternalTx ==
    /\ extTx < MaxExternal
    /\ extTx' = extTx + 1
    /\ chainSeq' = chainSeq + 1
    /\ UNCHANGED <<wSeq, rt, bcast, notWasm>>

NextWasm ==
    \/ \E i \in Routes, op \in {"route", "control"} : \E evt \in MessagesOf(op) :
          \E addr \in AddressesOf(op, evt) : RouteStart(i, op, evt, addr)
    \/ \E i \in Routes : sendMessage(i)
    \/ \E i \in Routes, g \in GasValues : pushEstimate(i, g)
    \/ \E i \in Routes : pushBroadcast(i)
    \/ \E i \in Routes : handleSequence(i)
    \/ \E i \in Routes : RouteReadSeq(i)
    \/ \E i \in Routes : RouteSetSeq(i)
    \/ \E i \in Routes : RouteWait(i)
    \/ ExternalTx

(***************************************************************************)
(* EVM provider: Route, SendTransaction, WaitForTxResult, WaitForResults.  *)
(* globalRouteLock is one package-level mutex.                             *)
(***************************************************************************)
EvmCallers == {1, 2}
EvmProviders == {"A", "B"}

IdleEvm ==
    [pc |-> "idle", op |-> "-", prov |-> "-", evt |-> "-", src |-> "", dst |-> "",
     hasCb |-> FALSE, gas |-> 0,
     polls |-> 0, cb |-> "none", err |-> "none", receipt |-> "none"]

\* gas estimates the EVM client can return
EvmGasValues == (GasMin - 1)..(GasLimit + 1)

\* SendTransaction: the gas bounds check
EvmGasRejected(g) == g > GasLimit \/ g < GasMin

\* cfg.GasAdjustment of each provider, in percent
EvmGasAdjustment == [p \in EvmProviders |-> IF p = "A" THEN 0 ELSE 100]

\* SendTransaction: opts.GasLimit, the limit the transaction is sent with
\* (uint64 arithmetic; the values here stay far below 2^64)
AdjustedGasLimit(gasLimit, adjustment) ==
    gasLimit + ((gasLimit * adjustment) \div 100)

InitEvm ==
    /\ globalRouteLock = 0
    /\ ev = [j \in EvmCallers |-> IdleEvm]
    /\ evSent = <<>>

\* Route is called on a provider: globalRouteLock.Lock()
EvmRouteLock(j, prov, evt, hasCb) ==
    /\ ev[j].pc = "idle"
    /\ globalRouteLock = 0
    /\ globalRouteLock' = j
    /\ ev' = [ev EXCEPT ![j] = [IdleEvm EXCEPT
                  !.pc = "opts", !.op = "route", !.prov = prov, !.evt = evt,
                  !.hasCb = hasCb]]
    /\ UNCHANGED <<evSent, notEvm>>

\* SetAdmin(admin) is called on a provider: it takes no lock and hands
\* SendTransaction the message {EventType: SetAdmin, Dst: admin}
EvmSetAdmin(j, prov, admin) ==
    /\ ev[j].pc = "idle"
    /\ ev' = [ev EXCEPT ![j] = [IdleEvm EXCEPT
                  !.pc = "opts", !.op = "setadmin", !.prov = prov,
                  !.evt = "SetAdmin", !.dst = admin]]
    /\ UNCHANGED <<globalRouteLock, evSent, notEvm>>

\* the control operations of Provider that check SendTransaction's error
CheckedControlEvents == {"RevertMessage", "ClaimFee", "SetFee", "ExecuteRollback"}

\* Provider.RevertMessage, ClaimFee, SetFee or ExecuteRollback is called:
\* it takes no lock and hands SendTransaction a message of its event kind
EvmControl(j, prov, evt) ==
    /\ ev[j].pc = "idle"
    /\ ev' = [ev EXCEPT ![j] = [IdleEvm EXCEPT
                  !.pc = "opts", !.op = "control", !.prov = prov, !.evt = evt]]
    /\ UNCHANGED <<globalRouteLock, evSent, notEvm>>

\* EVMProvider.RevertMessage is called
EvmProviderRevertMessage(j, prov) ==
    /\ ev[j].pc = "idle"
    /\ ev' = [ev EXCEPT ![j] = [IdleEvm EXCEPT
                  !.pc = "opts", !.op = "revert", !.prov = prov,
                  !.evt = "RevertMessage"]]
    /\ UNCHANGED <<globalRouteLock, evSent, notEvm>>

\* SendTransaction: the address argument of the client call
\* (SetAdmin: common.HexToAddress(message.Src); "" is the zero address)
EvmAddress(r) == IF r.evt = "SetAdmin" THEN r.src ELSE ""

\* Route: GetTransationOpts; on its failure Route returns the error at once
EvmGetOpts(j) ==
    /\ ev[j].pc = "opts"
    /\ \/ ev' = [ev EXCEPT ![j].pc = "send"]
       \/ ev' = [ev EXCEPT ![j].pc = "ret_err", ![j].err = "opts_failed"]
    /\ UNCHANGED <<globalRouteLock, evSent, notEvm>>

\* SendTransaction: the client method the event kind switch calls
EvmMethodOf(evt) ==
    CASE evt = "EmitMessage" -> "ReceiveMessage"
      [] evt = "CallMessage" -> "ExecuteCall"
      [] evt = "SetAdmin" -> "SetAdmin"
      [] evt = "RevertMessage" -> "RevertMessage"
      [] evt = "ClaimFee" -> "ClaimFee"
      [] evt = "SetFee" -> "SetFee"
      [] evt = "ExecuteRollback" -> "ExecuteRollback"
      [] OTHER -> "none"

\* SendTransaction: the outcomes of the gas estimate, the gas bounds check,
\* the event kind switch and the client call
SendOutcomes(evt, g) ==
    {"estimate_failed"} \cup
    (IF EvmGasRejected(g) THEN {"gas_bounds"}
     ELSE IF EvmMethodOf(evt) # "none" THEN {"ok", "send_failed"}
     ELSE {"unknown_event"})

\* Route: SendTransaction, then globalRouteLock.Unlock(), then the error check.
\* SetAdmin: SendTransaction, whose error is overwritten; tx.Hash() on the
\* nil transaction of a failed SendTransaction is a nil dereference.
\* The other control operations of Provider return SendTransaction's error.
EvmSend(j, g) ==
    /\ ev[j].pc = "send"
    /\ ev[j].op # "revert"
    /\ globalRouteLock' = IF ev[j].op = "route" THEN 0 ELSE globalRouteLock
    /\ UNCHANGED notEvm
    /\ \E o \in SendOutcomes(ev[j].evt, g) :
          LET gas == IF o = "estimate_failed" THEN 0 ELSE g IN
          IF o = "ok"
            THEN /\ evSent' = Append(evSent, [by |-> j, prov |-> ev[j].prov,
                                               evt |-> ev[j].evt,
                                               method |-> EvmMethodOf(ev[j].evt),
                                               addr |-> EvmAddress(ev[j]),
                                               gasLimit |-> AdjustedGasLimit(
                                                   g, EvmGasAdjustment[ev[j].prov])])
                 /\ ev' = [ev EXCEPT ![j].pc = "wait", ![j].gas = gas]
            ELSE /\ ev' = [ev EXCEPT
                              ![j].pc = IF ev[j].op = "setadmin" THEN "panicked"
                                        ELSE "ret_err",
                              ![j].err = o, ![j].gas = gas]
                 /\ UNCHANGED evSent

\* EVMProvider.RevertMessage: p.client.RevertMessage(opts, sn) and its
\* error check; opts.GasLimit is left 0 (the client estimates it at send)
EvmProviderRevertSend(j) ==
    /\ ev[j].pc = "send"
    /\ ev[j].op = "revert"
    /\ \/ /\ evSent' = Append(evSent, [by |-> j, prov |-> ev[j].prov,
                                        evt |-> ev[j].evt,
                                        method |-> "RevertMessage",
                                        addr |-> "", gasLimit |-> 0])
          /\ ev' = [ev EXCEPT ![j].pc = "wait"]
       \/ /\ ev' = [ev EXCEPT ![j].pc = "ret_err", ![j].err = "send_failed"]
          /\ UNCHANGED evSent
    /\ UNCHANGED <<globalRouteLock, notEvm>>

\* WaitForTxResult with a nil callback returns at once
EvmWaitNoCallback(j) ==
    /\ ev[j].pc = "wait"
    /\ ev[j].op = "route"
    /\ ~ev[j].hasCb
    /\ ev' = [ev EXCEPT ![j].pc = "ret_ok"]
    /\ UNCHANGED <<globalRouteLock, evSent, notEvm>>

\* WaitForResults: one tick of the polling loop, or ctx.Done; WaitForTxResult
\* then calls the callback with the outcome
EvmWaitPoll(j) ==
    /\ ev[j].pc = "wait"
    /\ ev[j].op = "route"
    /\ ev[j].hasCb
    /\ \/ \* ctx.Done
          ev' = [ev EXCEPT ![j].pc = "ret_err", ![j].cb = "error", ![j].err = "ctx"]
       \/ \* retryCounter >= MaxTxRetry
          /\ ev[j].polls >= MaxTxRetry
          /\ ev' = [ev EXCEPT ![j].pc = "ret_err", ![j].cb = "error", ![j].err = "max_retry"]
       \/ \* TransactionReceipt: ethereum.NotFound
          /\ ev[j].polls < MaxTxRetry
          /\ ev' = [ev EXCEPT ![j].polls = @ + 1]
       \/ \* TransactionReceipt: another error
          /\ ev[j].polls < MaxTxRetry
          /\ ev' = [ev EXCEPT ![j].polls = @ + 1, ![j].pc = "ret_err",
                                ![j].cb = "error", ![j].err = "receipt_failed"]
       \/ \* a receipt whose status is not successful
          /\ ev[j].polls < MaxTxRetry
          /\ ev' = [ev EXCEPT ![j].polls = @ + 1, ![j].pc = "ret_err",
                                ![j].cb = "error", ![j].err = "tx_failed"]
       \/ \* a receipt with successful status
          /\ ev[j].polls < MaxTxRetry
          /\ ev' = [ev EXCEPT ![j].polls = @ + 1, ![j].pc = "ret_ok", ![j].cb = "ok"]
    /\ UNCHANGED <<globalRouteLock, evSent, notEvm>>

\* SetAdmin: WaitForResults, one tick of its polling loop or ctx.Done, and
\* the check of the receipt's status
EvmSetAdminWait(j) ==
    /\ ev[j].pc = "wait"
    /\ ev[j].op = "setadmin"
    /\ \/ ev' = [ev EXCEPT ![j].pc = "ret_err", ![j].err = "ctx"]
       \/ /\ ev[j].polls >= MaxTxRetry
          /\ ev' = [ev EXCEPT ![j].pc = "ret_err", ![j].err = "max_retry"]
       \/ /\ ev[j].polls < MaxTxRetry
          /\ \/ ev' = [ev EXCEPT ![j].polls = @ + 1]
             \/ ev' = [ev EXCEPT ![j].polls = @ + 1, ![j].pc = "ret_err",
                                   ![j].err = "receipt_failed"]
             \/ ev' = [ev EXCEPT ![j].polls = @ + 1, ![j].pc = "ret_err",
                                   ![j].err = "tx_failed", ![j].receipt = "failed"]
             \/ ev' = [ev EXCEPT ![j].polls = @ + 1, ![j].pc = "ret_ok",
                                   ![j].receipt = "ok"]
    /\ UNCHANGED <<globalRouteLock, evSent, notEvm>>

\* Provider.RevertMessage, ClaimFee, SetFee, ExecuteRollback: WaitForResults,
\* one tick of its polling loop or ctx.Done, its error check and the check
\* of the receipt's status
EvmControlWait(j) ==
    /\ ev[j].pc = "wait"
    /\ ev[j].op = "control"
    /\ \/ ev' = [ev EXCEPT ![j].pc = "ret_err", ![j].err = "ctx"]
       \/ /\ ev[j].polls >= MaxTxRetry
          /\ ev' = [ev EXCEPT ![j].pc = "ret_err", ![j].err = "max_retry"]
       \/ /\ ev[j].polls < MaxTxRetry
          /\ \/ ev' = [ev EXCEPT ![j].polls = @ + 1]
             \/ ev' = [ev EXCEPT ![j].polls = @ + 1, ![j].pc = "ret_err",
                                   ![j].err = "receipt_failed"]
             \/ ev' = [ev EXCEPT ![j].polls = @ + 1, ![j].pc = "ret_err",
                                   ![j].err = "tx_failed", ![j].receipt = "failed"]
             \/ ev' = [ev EXCEPT ![j].polls = @ + 1, ![j].pc = "ret_ok",
                                   ![j].receipt = "ok"]
    /\ UNCHANGED <<globalRouteLock, evSent, notEvm>>

\* EVMProvider.RevertMessage: WaitForResults, then res.Status read before
\* err is looked at; WaitForResults returns a nil receipt with every error,
\* and res.Status on it is a nil dereference
EvmProviderRevertWait(j) ==
    /\ ev[j].pc = "wait"
    /\ ev[j].op = "revert"
    /\ \/ ev' = [ev EXCEPT ![j].pc = "panicked", ![j].err = "ctx"]
       \/ /\ ev[j].polls >= MaxTxRetry
          /\ ev' = [ev EXCEPT ![j].pc = "panicked", ![j].err = "max_retry"]
       \/ /\ ev[j].polls < MaxTxRetry
          /\ \/ ev' = [ev EXCEPT ![j].polls = @ + 1]
             \/ ev' = [ev EXCEPT ![j].polls = @ + 1, ![j].pc = "panicked",
                                   ![j].err = "receipt_failed"]
             \/ ev' = [ev EXCEPT ![j].polls = @ + 1, ![j].pc = "ret_err",
                                   ![j].err = "tx_failed", ![j].receipt = "failed"]
             \/ ev' = [ev EXCEPT ![j].polls = @ + 1, ![j].pc = "ret_ok",
                                   ![j].receipt = "ok"]
    /\ UNCHANGED <<globalRouteLock, evSent, notEvm>>

NextEvm ==
    \/ \E j \in EvmCallers, prov \in EvmProviders, admin \in Addresses :
          EvmSetAdmin(j, prov, admin)
    \/ \E j \in EvmCallers : EvmSetAdminWait(j)
    \/ \E j \in EvmCallers, prov \in EvmProviders, evt \in CheckedControlEvents :
          EvmControl(j, prov, evt)
    \/ \E j \in EvmCallers : EvmControlWait(j)
    \/ \E j \in EvmCallers, prov \in EvmProviders : EvmProviderRevertMessage(j, prov)
    \/ \E j \in EvmCallers : EvmProviderRevertSend(j)
    \/ \E j \in EvmCallers : EvmProviderRevertWait(j)
    \/ \E j \in EvmCallers, prov \in EvmProviders, evt \in EventKinds,
          hasCb \in BOOLEAN : EvmRouteLock(j, prov, evt, hasCb)
    \/ \E j \in EvmCallers : EvmGetOpts(j)
    \/ \E j \in EvmCallers, g \in EvmGasValues : EvmSend(j, g)
    \/ \E j \in EvmCallers : EvmWaitNoCallback(j)
    \/ \E j \in EvmCallers : EvmWaitPoll(j)

(***************************************************************************)
(* wasm provider: waitForTxResult, subscribeTxResultStream and             *)
(* pollTxResultStream, for one broadcast transaction.                      *)
(***************************************************************************)
NoMsg == [kind |-> "none", err |-> "none", hasTx |-> FALSE]
\* a TxResultChan value: kind says what it reports, err is its Error field
\* ("none" for nil), hasTx whether its TxResult field is set
TxMsg(kind, err, hasTx) == [kind |-> kind, err |-> err, hasTx |-> hasTx]

InitWait ==
    /\ strategy \in {"subscribe", "poll"}
    /\ twPc = "start"
    /\ twMsg = NoMsg
    /\ txResChan = [got |-> <<>>, closed |-> FALSE]
    /\ wfPc = "ranging"
    /\ callbacks = <<>>
    /\ clock = 0
    /\ ctxDone = FALSE
    /\ included = "no"
    /\ eventQueued = FALSE

\* newCtx, the ctx with timeout maxWaitInterval, has expired
Expired == clock > MaxWaitTicks

\* the errors p.client.Subscribe(newCtx, ...) can return
SubscribeErrors ==
    {"other"} \cup (IF Expired THEN {"deadline"} ELSE {})
              \cup (IF ctxDone THEN {"canceled"} ELSE {})

\* subscribeTxResultStream: Subscribe succeeds, or fails and the error is sent
SubscribeOpen ==
    /\ strategy = "subscribe"
    /\ twPc = "start"
    /\ \/ /\ twPc' = "loop"
          /\ UNCHANGED twMsg
       \/ \E e \in SubscribeErrors :
             /\ twPc' = "sending"
             /\ twMsg' = TxMsg("error", e, TRUE)
    /\ UNCHANGED <<strategy, txResChan, wfPc, callbacks, clock, ctxDone, included,
                   eventQueued, notWait>>

\* subscribeTxResultStream, select: case <-ctx.Done() returns
SubscribeCtxDone ==
    /\ strategy = "subscribe"
    /\ twPc = "loop"
    /\ ctxDone
    /\ twPc' = "done"
    /\ txResChan' = [txResChan EXCEPT !.closed = TRUE]
    /\ UNCHANGED <<strategy, twMsg, wfPc, callbacks, clock, ctxDone, included,
                   eventQueued, notWait>>

\* subscribeTxResultStream, select: case e := <-resultEventChan; the event is
\* decoded (which can fail) and a value is sent by its result code
SubscribeEvent ==
    /\ strategy = "subscribe"
    /\ twPc = "loop"
    /\ eventQueued
    /\ eventQueued' = FALSE
    /\ twPc' = "sending"
    /\ \/ twMsg' = TxMsg("error", "other", TRUE)
       \/ /\ included = "failed"
          /\ twMsg' = TxMsg("failed", "log", TRUE)
       \/ /\ included = "ok"
          /\ twMsg' = TxMsg("ok", "none", TRUE)
    /\ UNCHANGED <<strategy, txResChan, wfPc, callbacks, clock, ctxDone, included,
                   notWait>>

\* pollTxResultStream: the goroutine starts ranging over the ticker
PollStart ==
    /\ strategy = "poll"
    /\ twPc = "start"
    /\ twPc' = "loop"
    /\ UNCHANGED <<strategy, twMsg, txResChan, wfPc, callbacks, clock, ctxDone,
                   included, eventQueued, notWait>>

\* pollTxResultStream: one tick: GetTransactionReceipt finds the transaction,
\* or fails, and then the time since the start decides
PollTick ==
    /\ strategy = "poll"
    /\ twPc = "loop"
    /\ \/ /\ included # "no"
          /\ ~ctxDone
          /\ twPc' = "sending"
          /\ twMsg' = TxMsg(included, "none", TRUE)
       \/ /\ Expired
          /\ twPc' = "sending"
          /\ twMsg' = TxMsg("error", IF ctxDone THEN "canceled" ELSE "other", FALSE)
       \/ /\ ~Expired
          /\ UNCHANGED <<twPc, twMsg>>
    /\ UNCHANGED <<strategy, txResChan, wfPc, callbacks, clock, ctxDone, included,
                   eventQueued, notWait>>

\* waitForTxResult: what the loop body does with a received value m:
\* the callback it calls ("none": it panics before calling any)
CallbackFor(m) ==
    IF m.err # "none" /\ m.err # "deadline" THEN "error"
    ELSE IF ~m.hasTx THEN "none"
    ELSE "nil"

\* the goroutine's send and the receiver's receive meet (the channel is
\* unbuffered); the goroutine then returns, which closes the channel.  The
\* receiver of the subscribe stream is the loop of waitForTxResult.
ResultReceived ==
    /\ twPc = "sending"
    /\ wfPc = "ranging"
    /\ twPc' = "done"
    /\ twMsg' = NoMsg
    /\ txResChan' = [got |-> Append(txResChan.got, twMsg), closed |-> TRUE]
    /\ IF strategy = "subscribe"
         THEN /\ callbacks' = IF CallbackFor(twMsg) = "none" THEN callbacks
                               ELSE Append(callbacks, [err |-> CallbackFor(twMsg),
                                                       of |-> twMsg])
              /\ wfPc' = CASE CallbackFor(twMsg) = "error" -> "returned"
                            [] CallbackFor(twMsg) = "none" -> "panicked"
                            [] OTHER -> "ranging"
         ELSE UNCHANGED <<callbacks, wfPc>>
    /\ UNCHANGED <<strategy, clock, ctxDone, included, eventQueued, notWait>>

\* the receiver's range loop ends on the closed channel
RangeEnds ==
    /\ wfPc = "ranging"
    /\ txResChan.closed
    /\ wfPc' = "returned"
    /\ UNCHANGED <<strategy, twPc, twMsg, txResChan, callbacks, clock, ctxDone,
                   included, eventQueued, notWait>>

\* time passes
ClockTick ==
    /\ clock <= MaxWaitTicks
    /\ clock' = clock + 1
    /\ UNCHANGED <<strategy, twPc, twMsg, txResChan, wfPc, callbacks, ctxDone,
                   included, eventQueued, notWait>>

\* the parent ctx is cancelled
CancelCtx ==
    /\ ~ctxDone
    /\ ctxDone' = TRUE
    /\ UNCHANGED <<strategy, twPc, twMsg, txResChan, wfPc, callbacks, clock,
                   included, eventQueued, notWait>>

\* the chain includes the transaction; the node pushes the Tx event to a
\* subscription that is open at that moment
IncludeTx(code) ==
    /\ included = "no"
    /\ included' = code
    /\ eventQueued' = (strategy = "subscribe" /\ twPc = "loop")
    /\ UNCHANGED <<strategy, twPc, twMsg, txResChan, wfPc, callbacks, clock,
                   ctxDone, notWait>>

\* the steps of the stream goroutine and of its receiver
WaiterStep ==
    \/ SubscribeOpen
    \/ SubscribeCtxDone
    \/ SubscribeEvent
    \/ PollStart
    \/ PollTick
    \/ ResultReceived
    \/ RangeEnds

NextWait ==
    \/ SubscribeOpen
    \/ SubscribeCtxDone
    \/ SubscribeEvent
    \/ PollStart
    \/ PollTick
    \/ ResultReceived
    \/ RangeEnds
    \/ ClockTick
    \/ CancelCtx
    \/ \E code \in {"ok", "failed"} : IncludeTx(code)

(***************************************************************************)
(* The wasm Listener, its catch-up pipeline and subscriptions, and the     *)
(* relay coordinator's dispatcher.                                          *)
(***************************************************************************)
Contents == {"none", "msg", "bad"}
MaxHeight == InitHead + MaxNewBlocks
Heights == 1..MaxHeight
\* the values of p.cfg.StartHeight the provider is configured with
CfgStarts == {0, 2}
\* the cursors of the source chain the store holds when the relay starts
InitCursors == {0, 1, InitHead}
Workers == 1..NumCPU

NoBlock == [height |-> 0, msgs |-> {}, by |-> "none"]
BlockInfo(h, ms, by) == [height |-> h, msgs |-> ms, by |-> by]
IdleWorker == [pc |-> "off", start |-> 0, msgs |-> {}]
StoppedListener ==
    [pc |-> "stopped", latestHeight |-> 0, lastSavedHeight |-> 0, startHeight |-> 0,
     subscribed |-> FALSE, subHeight |-> 0, qFrom |-> 0, ran |-> FALSE]

getStartHeightSavedFirst(cfg, latestHeight, lastSavedHeight) ==
    IF lastSavedHeight > latestHeight THEN <<0, TRUE>>
    ELSE IF lastSavedHeight # 0 /\ lastSavedHeight < latestHeight
         THEN <<lastSavedHeight, FALSE>>
    ELSE IF cfg > 0 /\ cfg < latestHeight THEN <<cfg, FALSE>>
    ELSE <<latestHeight, FALSE>>

\* getStartHeight: <<startHeight, error>>
getStartHeight(cfg, latestHeight, lastSavedHeight) ==
    IF cfg > 0 /\ cfg < latestHeight THEN <<cfg, FALSE>>
    ELSE IF lastSavedHeight > latestHeight THEN <<0, TRUE>>
    ELSE IF lastSavedHeight # 0 /\ lastSavedHeight < latestHeight
         THEN <<lastSavedHeight, FALSE>>
    ELSE <<latestHeight, FALSE>>

\* getNumOfPipelines on a host of numCPU CPUs, with Go's integer division
getNumOfPipelinesOn(numCPU, diff) == IF diff <= numCPU THEN diff ELSE numCPU \div 2

\* getNumOfPipelines, with Go's integer division
getNumOfPipelines(diff) == getNumOfPipelinesOn(NumCPU, diff)

\* the heights a TxSearch over [Start, End] covers (both ends inclusive)
RangeOf(start) == {h \in Heights : h >= start /\ h <= start + 2 /\ h <= head}

InitListen ==
    /\ head = InitHead
    /\ blocks \in [Heights -> Contents]
    /\ \A h \in Heights : h > InitHead => blocks[h] = "none"
    /\ Cardinality({h \in Heights : blocks[h] # "none"}) <= MaxEvents
    /\ cfgStart \in CfgStarts
    /\ cursor \in InitCursors
    /\ store = {}
    /\ ls = StoppedListener
    /\ hs = [from |-> 0, to |-> 0]
    /\ wk = [w \in Workers |-> IdleWorker]
    /\ subQueue = <<>>
    /\ co = [pc |-> "recv", block |-> NoBlock]
    /\ emitted = {}
    /\ unfetched = {}
    /\ origin = 0
    /\ crashes = 0

\* Listener up to its loop: QueryLatestHeight, getStartHeight
ListenerEntry(rpcOk) ==
    /\ ls.pc = "stopped"
    /\ LET latestHeight == head
           sh == getStartHeight(cfgStart, latestHeight, cursor)
       IN  IF ~rpcOk \/ sh[2]
           THEN /\ ls' = [ls EXCEPT !.pc = "ret_err"]
                /\ UNCHANGED origin
           ELSE /\ ls' = [ls EXCEPT !.pc = "loop", !.latestHeight = latestHeight,
                                    !.lastSavedHeight = cursor,
                                    !.startHeight = sh[1]]
                /\ origin' = IF origin = 0 THEN sh[1] ELSE origin
    /\ UNCHANGED <<head, blocks, cfgStart, cursor, store, hs, wk, subQueue, co,
                   emitted, unfetched, crashes>>
    /\ UNCHANGED notListen

\* the loop's subscribeStarter case: the ticker fired; both subscriptions
\* are started with Height: latestHeight
ListenerSubscribe ==
    /\ ls.pc = "loop"
    /\ ~ls.subscribed
    /\ ls' = [ls EXCEPT !.subscribed = TRUE, !.subHeight = ls.latestHeight]
    /\ UNCHANGED <<head, blocks, cfgStart, cursor, store, hs, wk, subQueue, co,
                   emitted, unfetched, origin, crashes>>
    /\ UNCHANGED notListen

QueryDueInclusive(startHeight, latestHeight) == startHeight <= latestHeight

\* the loop's default case: `if startHeight < latestHeight`
QueryDue(startHeight, latestHeight) == startHeight < latestHeight

\* the loop's default case calls runBlockQuery, which starts the height
\* stream and numOfPipelines workers and then waits for them
runBlockQueryStart ==
    /\ ls.pc = "loop"
    /\ QueryDue(ls.startHeight, ls.latestHeight)
    /\ LET fromHeight == ls.startHeight
           toHeight == ls.latestHeight
           diff == (toHeight - fromHeight) \div 2
           numOfPipelines == getNumOfPipelines(diff)
       IN  /\ hs' = [from |-> fromHeight, to |-> toHeight]
           /\ wk' = [w \in Workers |->
                        IF w <= numOfPipelines
                        THEN [IdleWorker EXCEPT !.pc = "range"]
                        ELSE IdleWorker]
           /\ ls' = [ls EXCEPT !.pc = "query", !.qFrom = fromHeight]
    /\ UNCHANGED <<head, blocks, cfgStart, cursor, store, subQueue, co,
                   emitted, unfetched, origin, crashes>>
    /\ UNCHANGED notListen

\* a worker's `for heightRange := range heightStream`: the next sub-range
\* [from, from+2] of getHeightStream, or the end of the closed stream
WorkerTake(w) ==
    /\ ls.pc = "query"
    /\ wk[w].pc = "range"
    /\ IF hs.from < hs.to
       THEN /\ wk' = [wk EXCEPT ![w] = [pc |-> "fetch", start |-> hs.from, msgs |-> {}]]
            /\ hs' = [hs EXCEPT !.from = hs.from + 2]
       ELSE /\ wk' = [wk EXCEPT ![w] = [IdleWorker EXCEPT !.pc = "done"]]
            /\ UNCHANGED hs
    /\ UNCHANGED <<head, blocks, cfgStart, cursor, store, ls, subQueue, co,
                   emitted, unfetched, origin, crashes>>
    /\ UNCHANGED notListen

\* fetchBlockMessages in a worker.  A TxSearch error is logged inside
\* fetchBlockMessages and the search's transactions are left out; an
\* undecodable log makes getMessagesFromTxList return the error, and the
\* worker continues with the next sub-range.
WorkerFetch(w, rpcOk) ==
    /\ ls.pc = "query"
    /\ wk[w].pc = "fetch"
    /\ LET txs == IF rpcOk THEN {h \in RangeOf(wk[w].start) : blocks[h] # "none"}
                  ELSE {}
           err == \E h \in txs : blocks[h] = "bad"
       IN  /\ wk' = [wk EXCEPT ![w] =
                        IF err THEN [IdleWorker EXCEPT !.pc = "range"]
                        ELSE [pc |-> "send", start |-> wk[w].start, msgs |-> txs]]
           /\ unfetched' = IF err \/ ~rpcOk THEN unfetched \cup {wk[w].start}
                           ELSE unfetched
    /\ UNCHANGED <<head, blocks, cfgStart, cursor, store, ls, hs, subQueue, co,
                   emitted, origin, crashes>>
    /\ UNCHANGED notListen

\* the worker's send on blockInfoChan, received by the dispatcher
WorkerEmit(w) ==
    /\ ls.pc = "query"
    /\ wk[w].pc = "send"
    /\ co.pc = "recv"
    /\ LET b == BlockInfo(wk[w].start + 2, wk[w].msgs, "catchup")
       IN  /\ co' = [pc |-> "cursor", block |-> b]
           /\ emitted' = emitted \cup {b}
    /\ wk' = [wk EXCEPT ![w] = [IdleWorker EXCEPT !.pc = "range"]]
    /\ UNCHANGED <<head, blocks, cfgStart, cursor, store, ls, hs, subQueue,
                   unfetched, origin, crashes>>
    /\ UNCHANGED notListen

\* wg.Wait() is over: runBlockQuery returns toHeight + 1
runBlockQueryReturn ==
    /\ ls.pc = "query"
    /\ \A w \in Workers : wk[w].pc \in {"off", "done"}
    /\ ls' = [ls EXCEPT !.pc = "loop", !.startHeight = hs.to + 1, !.ran = TRUE]
    /\ wk' = [w \in Workers |-> IdleWorker]
    /\ UNCHANGED <<head, blocks, cfgStart, cursor, store, hs, subQueue, co,
                   emitted, unfetched, origin, crashes>>
    /\ UNCHANGED notListen

\* the chain commits a block; the node pushes its matching transaction to
\* the open subscriptions whose query (tx.height >= opts.Height) it meets
ProduceBlock(c) ==
    /\ head < MaxHeight
    /\ head' = head + 1
    /\ blocks' = [blocks EXCEPT ![head + 1] = c]
    /\ subQueue' = IF ls.subscribed /\ c # "none" /\ head + 1 >= ls.subHeight
                   THEN Append(subQueue, head + 1)
                   ELSE subQueue
    /\ UNCHANGED <<cfgStart, cursor, store, ls, hs, wk, co, emitted, unfetched,
                   origin, crashes>>
    /\ UNCHANGED notListen

\* SubscribeMessageEvents handles one event: an undecodable one is logged
\* and skipped, the others are sent as BlockInfo{Height: res.Height}
SubscribeMessageEvents ==
    /\ subQueue # <<>>
    /\ LET h == Head(subQueue)
       IN  IF blocks[h] = "bad"
           THEN UNCHANGED <<co, emitted, ls>>
           ELSE /\ co.pc = "recv"
                /\ co' = [pc |-> "cursor", block |-> BlockInfo(h, {h}, "sub")]
                /\ emitted' = emitted \cup {BlockInfo(h, {h}, "sub")}
                /\ ls' = [ls EXCEPT !.subHeight = h]
    /\ subQueue' = Tail(subQueue)
    /\ UNCHANGED <<head, blocks, cfgStart, cursor, store, hs, wk, unfetched,
                   origin, crashes>>
    /\ UNCHANGED notListen

\* dispatcher, step 1 without its guard: the cursor takes every block's height
DispatchCursorUnguarded ==
    /\ co.pc = "cursor"
    /\ cursor' = co.block.height
    /\ co' = [co EXCEPT !.pc = "persist"]
    /\ UNCHANGED <<head, blocks, cfgStart, store, ls, hs, wk, subQueue,
                   emitted, unfetched, origin, crashes>>
    /\ UNCHANGED notListen

\* dispatcher, step 1: update cursor[src] if block.height > cursor[src]
DispatchCursor ==
    /\ co.pc = "cursor"
    /\ cursor' = IF co.block.height > cursor THEN co.block.height ELSE cursor
    /\ co' = [co EXCEPT !.pc = "persist"]
    /\ UNCHANGED <<head, blocks, cfgStart, store, ls, hs, wk, subQueue,
                   emitted, unfetched, origin, crashes>>
    /\ UNCHANGED notListen

\* dispatcher, step 2: persist the block's messages that are not stored yet
DispatchPersist ==
    /\ co.pc = "persist"
    /\ store' = store \cup co.block.msgs
    /\ co' = [pc |-> "recv", block |-> NoBlock]
    /\ UNCHANGED <<head, blocks, cfgStart, cursor, ls, hs, wk, subQueue,
                   emitted, unfetched, origin, crashes>>
    /\ UNCHANGED notListen

\* the relay process dies: what is not in the store is lost; the listener
\* is started again with the persisted cursor (ListenerEntry)
Crash ==
    /\ crashes < MaxCrashes
    /\ ls.pc # "stopped"
    /\ crashes' = crashes + 1
    /\ ls' = StoppedListener
    /\ hs' = [from |-> 0, to |-> 0]
    /\ wk' = [w \in Workers |-> IdleWorker]
    /\ subQueue' = <<>>
    /\ co' = [pc |-> "recv", block |-> NoBlock]
    /\ emitted' = {}
    /\ unfetched' = {}
    /\ UNCHANGED <<head, blocks, cfgStart, cursor, store, origin>>
    /\ UNCHANGED notListen

NextListen ==
    \/ \E ok \in BOOLEAN : ListenerEntry(ok)
    \/ ListenerSubscribe
    \/ runBlockQueryStart
    \/ \E w \in Workers : WorkerTake(w)
    \/ \E w \in Workers, ok \in BOOLEAN : WorkerFetch(w, ok)
    \/ \E w \in Workers : WorkerEmit(w)
    \/ runBlockQueryReturn
    \/ \E c \in Contents : ProduceBlock(c)
    \/ SubscribeMessageEvents
    \/ DispatchCursor
    \/ DispatchPersist
    \/ Crash

(***************************************************************************)
(* The wasm event decoder: ParseMessageFromEvents.                          *)
(***************************************************************************)
\* the provider's network id and the addresses of its two contracts
NID == "chainA"
XcallContract == "xcall-addr"
ConnectionContract == "conn-addr"

\* the characters of the attribute values the decoder parses
CharsOf(v) ==
    CASE v = "0x0102" -> <<"0", "x", "0", "1", "0", "2">>
      [] v = "aa" -> <<"a", "a">>
      [] v = "0xaa" -> <<"0", "x", "a", "a">>
      [] v = "0x1" -> <<"0", "x", "1">>
      [] v = "zz" -> <<"z", "z">>
      [] v = "7" -> <<"7">>
      [] v = "42" -> <<"4", "2">>
      [] v = "-1" -> <<"-", "1">>
      [] OTHER -> <<>>

HexDigits == <<"0", "1", "2", "3", "4", "5", "6", "7", "8", "9",
               "a", "b", "c", "d", "e", "f">>
IsHexDigit(c) == \E k \in 1..16 : HexDigits[k] = c
HexValue(c) == (CHOOSE k \in 1..16 : HexDigits[k] = c) - 1
IsDecDigit(c) == \E k \in 1..10 : HexDigits[k] = c

\* pairs of hex digits to bytes
RECURSIVE HexBytes(_)
HexBytes(cs) ==
    IF cs = <<>> THEN <<>>
    ELSE <<16 * HexValue(cs[1]) + HexValue(cs[2])>> \o HexBytes(SubSeq(cs, 3, Len(cs)))

\* hexstr.NewFromString(v).ToByte(): the bytes of a hex string with or
\* without the 0x prefix; an odd length or a character that is no hex digit
\* is an error
HexToByte(v) ==
    LET cs == CharsOf(v)
        body == IF Len(cs) >= 2 /\ cs[1] = "0" /\ cs[2] = "x"
                THEN SubSeq(cs, 3, Len(cs)) ELSE cs
    IN  IF Len(body) % 2 = 1 \/ \E k \in 1..Len(body) : ~IsHexDigit(body[k])
        THEN [ok |-> FALSE, bytes |-> <<>>]
        ELSE [ok |-> TRUE, bytes |-> HexBytes(body)]

RECURSIVE DecValue(_)
DecValue(cs) ==
    IF cs = <<>> THEN 0
    ELSE 10 * DecValue(SubSeq(cs, 1, Len(cs) - 1)) + HexValue(cs[Len(cs)])

\* strconv.ParseUint(v, 10, strconv.IntSize): decimal digits only, not empty
ParseUint(v) ==
    LET cs == CharsOf(v)
    IN  IF cs = <<>> \/ \E k \in 1..Len(cs) : ~IsDecDigit(cs[k])
        THEN [ok |-> FALSE, n |-> 0]
        ELSE [ok |-> TRUE, n |-> DecValue(cs)]

\* new(providerTypes.Message)
NewMessage ==
    [eventType |-> "", src |-> "", dst |-> "", sn |-> 0, reqId |-> 0, data |-> <<>>,
     messageHeight |-> 0]

ContractAddressCaseSwapped(msg, value) ==
    CASE value = XcallContract ->
            [msg EXCEPT !.eventType = "EmitMessage", !.src = NID]
      [] value = ConnectionContract ->
            [msg EXCEPT !.eventType = "CallMessage", !.dst = NID]
      [] OTHER -> msg

\* ParseMessageFromEvents: the switch on attr.Value of _contract_address
ContractAddressCase(msg, value) ==
    CASE value = XcallContract ->
            [msg EXCEPT !.eventType = "CallMessage", !.dst = NID]
      [] value = ConnectionContract ->
            [msg EXCEPT !.eventType = "EmitMessage", !.src = NID]
      [] OTHER -> msg

\* ParseMessageFromEvents: the switch on attr.Key, for one attribute
ApplyAttribute(msg, attr) ==
    CASE attr.key = "_contract_address" ->
            [err |-> "none", msg |-> ContractAddressCase(msg, attr.value)]
      [] attr.key \in {"msg", "data"} ->
            LET d == HexToByte(attr.value)
            IN  IF d.ok THEN [err |-> "none", msg |-> [msg EXCEPT !.data = d.bytes]]
                ELSE [err |-> "data", msg |-> msg]
      [] attr.key = "connSn" ->
            LET n == ParseUint(attr.value)
            IN  IF n.ok THEN [err |-> "none", msg |-> [msg EXCEPT !.sn = n.n]]
                ELSE [err |-> "connSn", msg |-> msg]
      [] attr.key = "targetNetwork" ->
            [err |-> "none", msg |-> [msg EXCEPT !.dst = attr.value]]
      [] attr.key = "reqId" ->
            LET n == ParseUint(attr.value)
            IN  IF n.ok THEN [err |-> "none", msg |-> [msg EXCEPT !.reqId = n.n]]
                ELSE [err |-> "reqId", msg |-> msg]
      [] attr.key = "from" ->
            [err |-> "none", msg |-> [msg EXCEPT !.src = attr.value]]
      [] OTHER -> [err |-> "none", msg |-> msg]

\* ParseMessageFromEvents: the loop over ev.Attributes
RECURSIVE ParseAttributes(_, _)
ParseAttributes(msg, attrs) ==
    IF attrs = <<>> THEN [err |-> "none", msg |-> msg]
    ELSE LET r == ApplyAttribute(msg, Head(attrs))
         IN  IF r.err # "none" THEN r ELSE ParseAttributes(r.msg, Tail(attrs))

\* ParseMessageFromEvents: the loop over eventsList, messages so far in acc
RECURSIVE ParseEvents(_, _)
ParseEvents(eventsList, acc) ==
    IF eventsList = <<>> THEN [err |-> "none", msgs |-> acc]
    ELSE LET e == Head(eventsList)
         IN  IF e.type = "wasm-Message"
             THEN LET r == ParseAttributes(NewMessage, e.attributes)
                  IN  IF r.err # "none" THEN [err |-> r.err, msgs |-> <<>>]
                      ELSE ParseEvents(Tail(eventsList), Append(acc, r.msg))
             ELSE ParseEvents(Tail(eventsList), acc)

ParseMessageFromEvents(eventsList) == ParseEvents(eventsList, <<>>)

\* the events the decoder is given
MaxDecodeEvents == 2
Attr(k, v) == [key |-> k, value |-> v]
Reversed(q) == [k \in 1..Len(q) |-> q[Len(q) + 1 - k]]
Orders(q) == {q, Reversed(q)}

ConnectionEvents ==
    {[type |-> "wasm-Message", attributes |-> a] :
        a \in UNION {Orders(<<Attr("_contract_address", ConnectionContract), Attr("msg", m),
                              Attr("connSn", n), Attr("targetNetwork", "chainB")>>) :
                        m \in {"0x0102", "aa"}, n \in {"7", "42"}}}
XcallEvents ==
    {[type |-> "wasm-Message", attributes |-> a] :
        a \in UNION {Orders(<<Attr("_contract_address", XcallContract), Attr("data", m),
                              Attr("reqId", n), Attr("from", "chainX")>>) :
                        m \in {"0xaa", "aa"}, n \in {"7", "42"}}}
OtherEvents ==
    {[type |-> "wasm", attributes |->
        <<Attr("_contract_address", ConnectionContract), Attr("msg", "zz")>>]}
MalformedEvents ==
    {[type |-> "wasm-Message", attributes |-> a] :
        a \in {<<Attr("_contract_address", ConnectionContract), Attr("msg", "zz"),
                 Attr("connSn", "7"), Attr("targetNetwork", "chainB")>>,
               <<Attr("_contract_address", ConnectionContract), Attr("msg", "0x1"),
                 Attr("connSn", "7"), Attr("targetNetwork", "chainB")>>,
               <<Attr("_contract_address", ConnectionContract), Attr("msg", "0x0102"),
                 Attr("connSn", "-1"), Attr("targetNetwork", "chainB")>>,
               <<Attr("_contract_address", XcallContract), Attr("data", "aa"),
                 Attr("reqId", ""), Attr("from", "chainX")>>}}
\* wasm-Message events of a contract the relay is not configured with, and
\* one with no _contract_address attribute at all
ForeignEvents ==
    {[type |-> "wasm-Message", attributes |-> a] :
        a \in {<<Attr("_contract_address", "archway1foreign"), Attr("msg", "0x0102"),
                 Attr("connSn", "7"), Attr("targetNetwork", "chainB")>>,
               <<Attr("msg", "0x0102"), Attr("connSn", "7"),
                 Attr("targetNetwork", "chainB")>>}}
EventPool ==
    ConnectionEvents \cup XcallEvents \cup OtherEvents \cup MalformedEvents \cup ForeignEvents

NoDecode == [done |-> FALSE, err |-> "none", msgs |-> <<>>]

InitDecode ==
    /\ decIn \in UNION {[1..n -> EventPool] : n \in 0..MaxDecodeEvents}
    /\ decOut = NoDecode

\* one call of ParseMessageFromEvents
Decode ==
    /\ ~decOut.done
    /\ decOut' = [done |-> TRUE,
                  err |-> ParseMessageFromEvents(decIn).err,
                  msgs |-> ParseMessageFromEvents(decIn).msgs]
    /\ UNCHANGED <<decIn, notDecode>>

NextDecode == Decode

(***************************************************************************)
(* The transactions of one height range, decoded by a catch-up worker      *)
(* (fetchBlockMessages, getMessagesFromTxList) and by the subscription     *)
(* (SubscribeMessageEvents).                                                *)
(***************************************************************************)
MaxTxs == 2
MaxTxHeight == 2
TxHeights == 1..MaxTxHeight
\* heightRange.End of the sub-range the transactions are in
RangeEnd == MaxTxHeight

\* the events of the logs
GoodConnection ==
    [type |-> "wasm-Message", attributes |->
        <<Attr("_contract_address", ConnectionContract), Attr("msg", "0x0102"),
          Attr("connSn", "7"), Attr("targetNetwork", "chainB")>>]
GoodXcall ==
    [type |-> "wasm-Message", attributes |->
        <<Attr("_contract_address", XcallContract), Attr("data", "0xaa"),
          Attr("reqId", "42"), Attr("from", "chainX")>>]
BadHex ==
    [type |-> "wasm-Message", attributes |->
        <<Attr("_contract_address", ConnectionContract), Attr("msg", "zz"),
          Attr("connSn", "7"), Attr("targetNetwork", "chainB")>>]

\* TxResult.Log: a list of EventsList, one per message of the transaction
Logs ==
    {<<<<GoodConnection>>>>, <<<<GoodXcall>>>>, <<<<BadHex>>>>,
     <<<<GoodConnection>>, <<BadHex>>>>, <<<<BadHex>>, <<GoodXcall>>>>,
     <<<<GoodConnection>>, <<GoodXcall>>>>}
ResultTxs == [height : TxHeights, log : Logs]

\* msg.MessageHeight = uint64(resultTx.Height), for the messages of one entry
SetMessageHeight(msgs, h) ==
    [k \in 1..Len(msgs) |-> [msgs[k] EXCEPT !.messageHeight = h]]

\* getMessagesFromTxList, the inner loop: the BlockInfos of transaction k,
\* one per entry of its log.  tx is bookkeeping: the transaction a
\* BlockInfo's messages come from.
BlocksOfTx(txs, k) ==
    [n \in 1..Len(txs[k].log) |->
        [height |-> txs[k].height,
         msgs |-> SetMessageHeight(ParseMessageFromEvents(txs[k].log[n]).msgs,
                                   txs[k].height),
         tx |-> k]]

\* getMessagesFromTxList, the outer loop from transaction k on
RECURSIVE BlocksFrom(_, _)
BlocksFrom(txs, k) ==
    IF k > Len(txs) THEN <<>> ELSE BlocksOfTx(txs, k) \o BlocksFrom(txs, k + 1)

\* getMessagesFromTxList: `return nil, err` at the first entry that
\* ParseMessageFromEvents fails on, else the BlockInfos of all entries
getMessagesFromTxList(txs) ==
    IF \E k \in 1..Len(txs) : \E n \in 1..Len(txs[k].log) :
            ParseMessageFromEvents(txs[k].log[n]).err # "none"
    THEN [err |-> "parse", blocks |-> <<>>]
    ELSE [err |-> "none", blocks |-> BlocksFrom(txs, 1)]

\* the worker's `messages = append(messages, block.Messages...)`
RECURSIVE MessagesOfBlocks(_)
MessagesOfBlocks(bs) ==
    IF bs = <<>> THEN <<>> ELSE Head(bs).msgs \o MessagesOfBlocks(Tail(bs))
RECURSIVE SourcesOfBlocks(_)
SourcesOfBlocks(bs) ==
    IF bs = <<>> THEN <<>>
    ELSE [k \in 1..Len(Head(bs).msgs) |-> Head(bs).tx] \o SourcesOfBlocks(Tail(bs))

\* the worker: `continue` on an error of fetchBlockMessages, else one
\* BlockInfo{Height: heightRange.End} with the messages of all blocks
WorkerHandles(r) ==
    IF r.err # "none"
    THEN /\ fetchPc' = "skipped"
         /\ UNCHANGED blockInfoChan
    ELSE /\ fetchPc' = "sent"
         /\ blockInfoChan' =
               Append(blockInfoChan,
                      [by |-> "catchup", height |-> RangeEnd,
                       msgs |-> MessagesOfBlocks(r.blocks),
                       srcs |-> SourcesOfBlocks(r.blocks)])

\* SubscribeMessageEvents: an entry that fails to parse is logged and the
\* loop continues with the next one
MessagesOrContinue(r) == IF r.err # "none" THEN <<>> ELSE r.msgs

\* SubscribeMessageEvents: the loop over eventsList
RECURSIVE SubscriptionMessages(_)
SubscriptionMessages(eventsList) ==
    IF eventsList = <<>> THEN <<>>
    ELSE MessagesOrContinue(ParseMessageFromEvents(Head(eventsList)))
            \o SubscriptionMessages(Tail(eventsList))

\* SubscribeMessageEvents: BlockInfo{Height: res.Height, Messages: messages}
SubscriptionBlock(h, messages, k) ==
    [by |-> "sub", height |-> h, msgs |-> messages,
     srcs |-> [n \in 1..Len(messages) |-> k]]

InitFetch ==
    /\ resultTxList \in UNION {[1..n -> ResultTxs] : n \in 0..MaxTxs}
    /\ fetchPc = "fetch"
    /\ subNext = 1
    /\ blockInfoChan = <<>>

\* a runBlockQuery worker handles the sub-range: fetchBlockMessages, then
\* either `continue` on an error or one BlockInfo{Height: heightRange.End}
FetchRange ==
    /\ fetchPc = "fetch"
    /\ WorkerHandles(getMessagesFromTxList(resultTxList))
    /\ UNCHANGED <<resultTxList, subNext>>
    /\ UNCHANGED notFetch

\* SubscribeMessageEvents receives the next transaction of the range from
\* resultEventChan and sends BlockInfo{Height: res.Height}
SubscriptionEvent ==
    /\ subNext <= Len(resultTxList)
    /\ blockInfoChan' =
          Append(blockInfoChan,
                 SubscriptionBlock(resultTxList[subNext].height,
                                   SubscriptionMessages(resultTxList[subNext].log),
                                   subNext))
    /\ subNext' = subNext + 1
    /\ UNCHANGED <<resultTxList, fetchPc>>
    /\ UNCHANGED notFetch

NextFetch ==
    \/ FetchRange
    \/ SubscriptionEvent

(***************************************************************************)
(* Listener entry: the start height of the wasm and of the sui Listener.    *)
(***************************************************************************)
MaxEntryHeight == 4
EntryHeights == 0..MaxEntryHeight
Chains == {"wasm", "sui"}
NotStarted == [done |-> FALSE, startHeight |-> 0, err |-> FALSE]

\* sui Listener: startCheckpointSeq, <<start, error>>; it has no error return
\* after GetLatestCheckpointSeq
SuiStartCheckpointSeq(latestCheckpointSeq, lastSavedCheckpointSeq) ==
    IF lastSavedCheckpointSeq # 0 /\ lastSavedCheckpointSeq < latestCheckpointSeq
    THEN <<lastSavedCheckpointSeq, FALSE>>
    ELSE <<latestCheckpointSeq, FALSE>>

\* Listener, after the latest height is read: the start height or the error
StartOf(e) ==
    IF e.chain = "wasm"
    THEN getStartHeight(e.cfg, e.latestHeight, e.lastSavedHeight)
    ELSE SuiStartCheckpointSeq(e.latestHeight, e.lastSavedHeight)

InitStart ==
    /\ entry \in [chain : Chains, cfg : EntryHeights,
                  latestHeight : EntryHeights \ {0},
                  lastSavedHeight : EntryHeights]
    /\ started = NotStarted

\* Listener up to the point where it returns the error or starts
ListenerStart ==
    /\ ~started.done
    /\ started' = [done |-> TRUE, startHeight |-> StartOf(entry)[1],
                   err |-> StartOf(entry)[2]]
    /\ UNCHANGED <<entry, notStart>>

NextStart == ListenerStart

(***************************************************************************)
(* fetchBlockMessages: one paged TxSearch per event filter, for one          *)
(* sub-range.                                                               *)
(***************************************************************************)
NumFilters == 2
MaxPages == 3
Filters == 1..NumFilters
\* the transactions of page pg of filter f, and all of the sub-range
PageTxs(f, pg) == IF pg <= totalPages[f] THEN {<<f, pg>>} ELSE {}
AllTxs == UNION {PageTxs(f, pg) : f \in Filters, pg \in 1..MaxPages}

InitSearch ==
    /\ totalPages \in [Filters -> 1..MaxPages]
    /\ fb = [pc |-> "search", filter |-> 1, page |-> 1, res |-> {},
             messages |-> {}, failed |-> {}, err |-> FALSE, sent |-> {}]

\* the loop over p.eventList is at its end
SearchesDone == fb.filter > NumFilters

\* one p.client.TxSearch call of the goroutine of the current filter.  An
\* error goes to errorChan, where the loop logs it and goes on with the
\* next filter; the last page's result goes to messagesChan and is merged.
TxSearch(ok) ==
    /\ fb.pc = "search"
    /\ ~SearchesDone
    /\ IF ~ok
       THEN fb' = [fb EXCEPT !.failed = fb.failed \cup {<<fb.filter, fb.page>>},
                             !.res = {}, !.page = 1, !.filter = fb.filter + 1]
       ELSE IF fb.page < totalPages[fb.filter]
       THEN fb' = [fb EXCEPT !.res = fb.res \cup PageTxs(fb.filter, fb.page),
                             !.page = fb.page + 1]
       ELSE fb' = [fb EXCEPT !.messages = fb.messages \cup fb.res
                                            \cup PageTxs(fb.filter, fb.page),
                             !.res = {}, !.page = 1, !.filter = fb.filter + 1]
    /\ UNCHANGED <<totalPages, notSearch>>

\* wg.Wait(); return p.getMessagesFromTxList(messages.Txs), whose error is
\* the only one fetchBlockMessages returns
fetchBlockMessagesReturn(decodeOk) ==
    /\ fb.pc = "search"
    /\ SearchesDone
    /\ fb' = [fb EXCEPT !.pc = "returned", !.err = ~decodeOk]
    /\ UNCHANGED <<totalPages, notSearch>>

\* the runBlockQuery worker sends the BlockInfo of the sub-range unless
\* fetchBlockMessages returned an error
WorkerSends ==
    /\ fb.pc = "returned"
    /\ fb' = [fb EXCEPT !.pc = "done",
                        !.sent = IF fb.err THEN {} ELSE {fb.messages}]
    /\ UNCHANGED <<totalPages, notSearch>>

NextSearch ==
    \/ \E ok \in BOOLEAN : TxSearch(ok)
    \/ \E decodeOk \in BOOLEAN : fetchBlockMessagesReturn(decodeOk)
    \/ WorkerSends

(***************************************************************************)
(* getHeightStream and the worker of getBlockInfoStream, with their done    *)
(* channel.                                                                  *)
(***************************************************************************)
MaxRanges == 2
MaxBlockInfos == 2

InitStream ==
    /\ sDone = FALSE
    /\ sHeights \in {[next |-> 0, to |-> 2 * k, closed |-> FALSE] : k \in 1..MaxRanges}
    /\ sWorker = [pc |-> "select", left |-> 0]
    /\ sConsumer = TRUE

\* getHeightStream: `case heightChan <- &types.HeightRange{...}`, received by
\* the worker's `case height, ok := <-heightChan`
HeightStreamSend ==
    /\ ~sHeights.closed
    /\ sHeights.next < sHeights.to
    /\ sWorker.pc = "select"
    /\ sHeights' = [sHeights EXCEPT !.next = sHeights.next + 2]
    /\ sWorker' = [sWorker EXCEPT !.pc = "fetch"]
    /\ UNCHANGED <<sDone, sConsumer, notStream>>

\* getHeightStream: the loop ends or `case <-done: return`; the deferred
\* close(heightChan) runs
HeightStreamReturn ==
    /\ ~sHeights.closed
    /\ sHeights.next >= sHeights.to \/ sDone
    /\ sHeights' = [sHeights EXCEPT !.closed = TRUE]
    /\ UNCHANGED <<sDone, sWorker, sConsumer, notStream>>

\* the worker's inner loop: fetchBlockMessages; on an error it logs and
\* sleeps, else it goes on to send the n BlockInfos
WorkerFetchBlocks(ok, n) ==
    /\ sWorker.pc = "fetch"
    /\ sWorker' = IF ~ok THEN [sWorker EXCEPT !.pc = "sleep"]
                  ELSE IF n = 0 THEN [pc |-> "select", left |-> 0]
                  ELSE [pc |-> "send", left |-> n]
    /\ UNCHANGED <<sDone, sHeights, sConsumer, notStream>>

\* time.Sleep(time.Second * 3) is over: the inner loop fetches again
WorkerSleepOver ==
    /\ sWorker.pc = "sleep"
    /\ sWorker' = [sWorker EXCEPT !.pc = "fetch"]
    /\ UNCHANGED <<sDone, sHeights, sConsumer, notStream>>

\* `blockInfoChan <- message` on the unbuffered channel: a consumer receives
WorkerSendMessage ==
    /\ sWorker.pc = "send"
    /\ sConsumer
    /\ sWorker' = IF sWorker.left = 1 THEN [pc |-> "select", left |-> 0]
                  ELSE [sWorker EXCEPT !.left = sWorker.left - 1]
    /\ UNCHANGED <<sDone, sHeights, sConsumer, notStream>>

\* the worker's `case <-done: return`; the deferred close(blockInfoChan) runs
WorkerDone ==
    /\ sWorker.pc = "select"
    /\ sDone
    /\ sWorker' = [sWorker EXCEPT !.pc = "exited"]
    /\ UNCHANGED <<sDone, sHeights, sConsumer, notStream>>

\* the pipeline closes the done channel
CloseDone ==
    /\ ~sDone
    /\ sDone' = TRUE
    /\ UNCHANGED <<sHeights, sWorker, sConsumer, notStream>>

\* the consumer of the worker's output channel stops receiving
ConsumerStops ==
    /\ sConsumer
    /\ sConsumer' = FALSE
    /\ UNCHANGED <<sDone, sHeights, sWorker, notStream>>

\* the steps of the two goroutines
StreamStep ==
    \/ HeightStreamSend
    \/ HeightStreamReturn
    \/ \E ok \in BOOLEAN, n \in 0..MaxBlockInfos : WorkerFetchBlocks(ok, n)
    \/ WorkerSleepOver
    \/ WorkerSendMessage
    \/ WorkerDone

NextStream ==
    \/ StreamStep
    \/ CloseDone
    \/ ConsumerStops

(***************************************************************************)
(* The wasm Listener under cancellation of the root context.                *)
(***************************************************************************)
\* the root context is cancelled
CancelRoot ==
    /\ ~rootCtx
    /\ rootCtx' = TRUE
    /\ UNCHANGED <<listenVars, notCancel>>

\* the Listener loop's `case <-ctx.Done(): return ctx.Err()`
ListenerCtxDone ==
    /\ ls.pc = "loop"
    /\ rootCtx
    /\ ls' = [ls EXCEPT !.pc = "returned"]
    /\ UNCHANGED <<head, blocks, cfgStart, cursor, store, hs, wk, subQueue, co,
                   emitted, unfetched, origin, crashes>>
    /\ UNCHANGED notListen

\* the coordinator, cancelled as well, stops receiving from blockInfoChan
CoordinatorStops ==
    /\ co.pc = "recv"
    /\ rootCtx
    /\ co' = [co EXCEPT !.pc = "stopped"]
    /\ UNCHANGED <<head, blocks, cfgStart, cursor, store, ls, hs, wk, subQueue,
                   emitted, unfetched, origin, crashes>>
    /\ UNCHANGED notListen

\* the steps of the Listener, its workers and the dispatcher
ListenStep ==
    \/ \E ok \in BOOLEAN : ListenerEntry(ok)
    \/ ListenerSubscribe
    \/ runBlockQueryStart
    \/ \E w \in Workers : WorkerTake(w)
    \/ \E w \in Workers, ok \in BOOLEAN : WorkerFetch(w, ok)
    \/ \E w \in Workers : WorkerEmit(w)
    \/ runBlockQueryReturn
    \/ DispatchCursor
    \/ DispatchPersist
    \/ ListenerCtxDone

NextCancel ==
    \/ ListenStep
    \/ CancelRoot
    \/ CoordinatorStops

\* one Listener call with nothing saved, on a chain that stands still
InitCancel ==
    /\ InitListen
    /\ cfgStart = 0
    /\ cursor = 1

(***************************************************************************)
(* Provider construction from a chain configuration, and Route under it.    *)
(***************************************************************************)
MaxCfgGas == 2
MaxCfgRoutes == 1
CfgGasValues == 0..MaxCfgGas

NewProviderState == [pc |-> "new", routes |-> 0, gas |-> 0, rejected |-> FALSE]

\* wasm Init and evm Config.Validate: p.Contracts.Validate() is the only check
Validate(cfg) == cfg.contractsValid

\* the gas bounds check of a submission under configuration cfg
\* (wasm: MinGasAmount, MaxGasAmount; evm: GasMin, GasLimit)
GasOutOfBounds(g, cfg) == g < cfg.minGas \/ g > cfg.maxGas

InitConfig ==
    /\ chainCfg \in [chain : {"wasm", "evm"}, minGas : CfgGasValues,
                     maxGas : CfgGasValues, contractsValid : BOOLEAN]
    /\ prv = NewProviderState

\* wasm Provider.Init, evm Config.NewProvider: the provider is there unless
\* the validation fails
ProviderInit ==
    /\ prv.pc = "new"
    /\ prv' = [prv EXCEPT !.pc = IF Validate(chainCfg) THEN "ready"
                                 ELSE "config_error"]
    /\ UNCHANGED <<chainCfg, notConfig>>

\* a Route on the constructed provider, whose gas estimate is g
RouteUnderConfig(g) ==
    /\ prv.pc = "ready"
    /\ prv.routes < MaxCfgRoutes
    /\ prv' = [prv EXCEPT !.routes = prv.routes + 1, !.gas = g,
                          !.rejected = GasOutOfBounds(g, chainCfg)]
    /\ UNCHANGED <<chainCfg, notConfig>>

NextConfig ==
    \/ ProviderInit
    \/ \E g \in 0..(MaxCfgGas + 1) : RouteUnderConfig(g)

(***************************************************************************)
(* The relay coordinator's retry/finality loop for one source chain and    *)
(* one destination provider (spec 4.6), fed with the Messages the wasm     *)
(* listener hands over.                                                     *)
(***************************************************************************)
NumKeys == 2
MsgHeight == 100
FinalityBlock == 10
MaxLatestSteps == 2
MaxRetry == 2
MaxRestarts == 1
Keys == 1..NumKeys
InitLatest == MsgHeight + FinalityBlock - 1
MaxLatest == InitLatest + MaxLatestSteps

Absent ==
    [present |-> FALSE, height |-> 0, observed |-> 0, retry |-> 0, cooling |-> FALSE,
     pc |-> "idle", stale |-> FALSE, restored |-> FALSE]
\* a message persisted by an earlier run of the relay (from a catch-up block)
Persisted == [Absent EXCEPT !.present = TRUE, !.height = MsgHeight, !.observed = MsgHeight]

NoRoute == [called |-> FALSE, height |-> 0, observed |-> 0, restored |-> FALSE, latest |-> 0]

\* Message.MessageHeight as the listener sets it: getMessagesFromTxList
\* assigns the transaction's height, SubscribeMessageEvents assigns nothing
MessageHeightOf(by, h) == IF by = "catchup" THEN h ELSE 0

\* the finality delay with the bound off by one
FinalOffByOne(m) == m.height + FinalityBlock <= relay.latest + 1

\* the finality delay: m.message_height + finality_block(src) <= latest_height(src)
Final(m) == m.height + FinalityBlock <= relay.latest

\* a message the retry/finality loop attempts on a tick
Eligible(k) ==
    /\ inflight[k].present
    /\ inflight[k].pc = "idle"
    /\ ~inflight[k].cooling
    /\ Final(inflight[k])

\* MessageReceived: the receipt query; a failed query answers false
MessageReceived(k, rpcOk) == rpcOk /\ received[k]

InitRelay ==
    /\ relay = [up |-> FALSE, latest |-> InitLatest, restarts |-> 0]
    /\ inflight \in [Keys -> {Absent, Persisted}]
    /\ received = [k \in Keys |-> FALSE]
    /\ routeLog = [k \in Keys |-> NoRoute]

\* coordinator startup: iterate the store, schedule all persisted messages
CoordinatorStartup ==
    /\ ~relay.up
    /\ relay' = [relay EXCEPT !.up = TRUE]
    /\ inflight' = [k \in Keys |->
                      IF inflight[k].present
                      THEN [inflight[k] EXCEPT !.cooling = FALSE, !.restored = TRUE]
                      ELSE inflight[k]]
    /\ UNCHANGED <<received, routeLog, notRelay>>

\* the relay process stops: the route calls in progress are lost, the store stays
CoordinatorCrash ==
    /\ relay.up
    /\ relay.restarts < MaxRestarts
    /\ relay' = [relay EXCEPT !.up = FALSE, !.restarts = @ + 1]
    /\ inflight' = [k \in Keys |-> [inflight[k] EXCEPT !.pc = "idle", !.stale = FALSE]]
    /\ UNCHANGED <<received, routeLog, notRelay>>

\* the source chain commits a block
SourceBlock ==
    /\ relay.latest < MaxLatest
    /\ relay' = [relay EXCEPT !.latest = @ + 1]
    /\ UNCHANGED <<inflight, received, routeLog, notRelay>>

\* dispatcher, step 2 for one Message of a BlockInfo: persist unless stored
DispatchMessage(k, by) ==
    /\ relay.up
    /\ ~inflight[k].present
    /\ LET h == IF by = "catchup" THEN MsgHeight ELSE relay.latest
       IN  inflight' = [inflight EXCEPT ![k] =
                           [Absent EXCEPT !.present = TRUE,
                                          !.height = MessageHeightOf(by, h),
                                          !.observed = h]]
    /\ UNCHANGED <<relay, received, routeLog, notRelay>>

\* one tick of the retry/finality loop: route is called for every eligible message
RetryTick ==
    /\ relay.up
    /\ \E k \in Keys : Eligible(k)
    /\ inflight' = [k \in Keys |->
                      IF Eligible(k)
                      THEN [inflight[k] EXCEPT !.pc = "routing", !.stale = received[k]]
                      ELSE inflight[k]]
    /\ routeLog' = [k \in Keys |->
                      IF Eligible(k)
                      THEN [called |-> TRUE, height |-> inflight[k].height,
                            observed |-> inflight[k].observed,
                            restored |-> inflight[k].restored, latest |-> relay.latest]
                      ELSE routeLog[k]]
    /\ UNCHANGED <<relay, received, notRelay>>

\* the destination chain includes the transaction of an attempt
DestinationIncludes(k) ==
    /\ routeLog[k].called
    /\ ~received[k]
    /\ received' = [received EXCEPT ![k] = TRUE]
    /\ UNCHANGED <<relay, inflight, routeLog, notRelay>>

\* on_complete(key, tx_response, err) of a route call
OnComplete(k, ok, rpcOk) ==
    /\ relay.up
    /\ inflight[k].pc = "routing"
    /\ inflight' = [inflight EXCEPT ![k] =
          IF ok
          THEN IF MessageReceived(k, rpcOk) THEN Absent
               ELSE [inflight[k] EXCEPT !.pc = "idle", !.stale = FALSE]
          ELSE IF inflight[k].retry + 1 >= MaxRetry THEN Absent
               ELSE [inflight[k] EXCEPT !.pc = "idle", !.retry = @ + 1,
                                        !.cooling = TRUE]]
    /\ UNCHANGED <<relay, received, routeLog, notRelay>>

\* now - m.last_tried_at reaches backoff(m.retry_count)
BackoffElapses(k) ==
    /\ inflight[k].present
    /\ inflight[k].cooling
    /\ inflight' = [inflight EXCEPT ![k].cooling = FALSE]
    /\ UNCHANGED <<relay, received, routeLog, notRelay>>

NextRelay ==
    \/ CoordinatorStartup
    \/ CoordinatorCrash
    \/ SourceBlock
    \/ \E k \in Keys, by \in {"catchup", "sub"} : DispatchMessage(k, by)
    \/ RetryTick
    \/ \E k \in Keys : DestinationIncludes(k)
    \/ \E k \in Keys, ok \in BOOLEAN, rpcOk \in BOOLEAN : OnComplete(k, ok, rpcOk)
    \/ \E k \in Keys : BackoffElapses(k)

(***************************************************************************)
(* sui provider: GenerateTxDigests.  A Go slice is a window [off, off+len)  *)
(* on a backing array; the sub-checkpoints of stage 1 and the digests that  *)
(* stage 2 takes from cp.Transactions[i:] are windows on the backing array  *)
(* of the checkpoint's Transactions, and append writes in place while the   *)
(* window's capacity allows.  arr = 0 names an array nothing else refers to.*)
(***************************************************************************)
MaxCheckpoints == 3
MaxCpTxs == 3
MaxDigestsPerItem == 3
MaxSpare == 1

\* SequenceNumber of the k-th checkpoint of a response, and the number it writes
SeqStrings == << <<"8">>, <<"9">>, <<"1", "0">>, <<"1", "1">> >>
SeqNumbers == <<8, 9, 10, 11>>
\* the j-th transaction digest of the k-th checkpoint
Digest(k, j) == 10 * k + j
CheckpointOf(digest) == digest \div 10

\* strconv.Atoi with the error dropped: 0 unless all characters are digits
Atoi(cs) ==
    IF cs = <<>> \/ \E k \in 1..Len(cs) : ~IsDecDigit(cs[k]) THEN 0 ELSE DecValue(cs)

\* the elements a slice shows in the memory mem
View(sl, mem) ==
    IF sl.arr = 0 THEN sl.own ELSE SubSeq(mem[sl.arr], sl.off + 1, sl.off + sl.len)

\* s[i:j] of the checkpoint's Transactions
Slice(arr, i, j) == [arr |-> arr, off |-> i, len |-> j - i, own |-> <<>>]

\* stage 1 for one checkpoint: its batches of at most maxDigestsPerItem
SplitCheckpoint(cp, k, maxDigestsPerItem) ==
    IF Len(cp.txs) > maxDigestsPerItem
    THEN LET totalBatches ==
                 (Len(cp.txs) \div maxDigestsPerItem)
                   + (IF Len(cp.txs) % maxDigestsPerItem # 0 THEN 1 ELSE 0)
         IN  [i \in 1..totalBatches |->
                [seq |-> cp.seq,
                 txs |-> Slice(k, (i - 1) * maxDigestsPerItem,
                               IF i = totalBatches THEN Len(cp.txs)
                               ELSE i * maxDigestsPerItem)]]
    ELSE <<[seq |-> cp.seq, txs |-> Slice(k, 0, Len(cp.txs))]>>

\* stage 1: the list of (sub-)checkpoints
RECURSIVE SplitFrom(_, _, _)
SplitFrom(checkpointResponses, k, maxDigestsPerItem) ==
    IF k > Len(checkpointResponses) THEN <<>>
    ELSE SplitCheckpoint(checkpointResponses[k], k, maxDigestsPerItem)
           \o SplitFrom(checkpointResponses, k + 1, maxDigestsPerItem)

\* digests = append(digests, tx): in place when the capacity allows
AppendDigest(st, tx) ==
    IF st.digests.arr # 0
         /\ st.digests.off + st.digests.len < Len(st.mem[st.digests.arr])
    THEN [st EXCEPT !.mem[st.digests.arr][st.digests.off + st.digests.len + 1] = tx,
                    !.digests.len = @ + 1]
    ELSE [st EXCEPT !.digests = [arr |-> 0, off |-> 0, len |-> st.digests.len + 1,
                                 own |-> Append(View(st.digests, st.mem), tx)]]

\* digests = append(digests, txs...)
RECURSIVE AppendDigests(_, _, _)
AppendDigests(st, txs, j) ==
    IF j > Len(txs) THEN st ELSE AppendDigests(AppendDigest(st, txs[j]), txs, j + 1)

\* the test that closes a packet, one digest early
PacketFullEarly(n, maxDigestsPerItem) == n >= maxDigestsPerItem - 1

\* len(digests) == maxDigestsPerItem
PacketFull(n, maxDigestsPerItem) == n = maxDigestsPerItem

\* stage 2, the loop over cp.Transactions from index i (0-based)
RECURSIVE FillPacket(_, _, _, _, _)
FillPacket(st, cp, i, toCheckpoint, maxDigestsPerItem) ==
    IF i >= cp.txs.len THEN st
    ELSE IF PacketFull(st.digests.len, maxDigestsPerItem)
    THEN [st EXCEPT !.list = Append(@, [from |-> st.fromCheckpoint,
                                         to |-> toCheckpoint,
                                         digests |-> st.digests]),
                    !.digests = Slice(cp.txs.arr, cp.txs.off + i, cp.txs.off + cp.txs.len),
                    !.fromCheckpoint = Atoi(cp.seq)]
    ELSE FillPacket(AppendDigest(st, st.mem[cp.txs.arr][cp.txs.off + i + 1]),
                    cp, i + 1, toCheckpoint, maxDigestsPerItem)

\* toCheckpoint without the case of a packet that is not full yet
ToCheckpointPrevious(n, checkpoints, i, maxDigestsPerItem) ==
    Atoi(checkpoints[i - 1].seq)

\* toCheckpoint of the packet the loop is about to close: the previous
\* checkpoint, or this one when the packet still takes digests of it
ToCheckpoint(n, checkpoints, i, maxDigestsPerItem) ==
    IF n < maxDigestsPerItem THEN Atoi(checkpoints[i].seq)
    ELSE Atoi(checkpoints[i - 1].seq)

\* stage 2, the body of the loop over the checkpoints
PacketStep(st, checkpoints, i, maxDigestsPerItem) ==
    IF st.digests.len + checkpoints[i].txs.len > maxDigestsPerItem
    THEN FillPacket(st, checkpoints[i], 0,
                    ToCheckpoint(st.digests.len, checkpoints, i, maxDigestsPerItem),
                    maxDigestsPerItem)
    ELSE AppendDigests(st, View(checkpoints[i].txs, st.mem), 1)

RECURSIVE PacketsFrom(_, _, _, _)
PacketsFrom(st, checkpoints, i, maxDigestsPerItem) ==
    IF i > Len(checkpoints)
    THEN [st EXCEPT !.list = Append(@, [from |-> st.fromCheckpoint,
                                         to |-> Atoi(checkpoints[Len(checkpoints)].seq),
                                         digests |-> st.digests])]
    ELSE PacketsFrom(PacketStep(st, checkpoints, i, maxDigestsPerItem),
                     checkpoints, i + 1, maxDigestsPerItem)

\* the returned packets, read when the call returns
PacketsOf(st) ==
    [n \in 1..Len(st.list) |->
        [from |-> st.list[n].from, to |-> st.list[n].to,
         digests |-> View(st.list[n].digests, st.mem)]]

GenerateTxDigests(checkpointResponses, maxDigestsPerItem, spare) ==
    PacketsOf(PacketsFrom(
        [mem |-> [k \in 1..Len(checkpointResponses) |->
                     checkpointResponses[k].txs \o [j \in 1..spare |-> 0]],
         digests |-> [arr |-> 0, off |-> 0, len |-> 0, own |-> <<>>],
         fromCheckpoint |-> Atoi(SplitFrom(checkpointResponses, 1, maxDigestsPerItem)[1].seq),
         list |-> <<>>],
        SplitFrom(checkpointResponses, 1, maxDigestsPerItem), 1, maxDigestsPerItem))

\* the checkpoint responses GetCheckpoints returns, in ascending order
CheckpointLists ==
    UNION {{[k \in 1..n |-> [seq |-> SeqStrings[k],
                              txs |-> [j \in 1..c[k] |-> Digest(k, j)]]] :
               c \in [1..n -> 0..MaxCpTxs]} : n \in 1..MaxCheckpoints}

InitDigest ==
    /\ cpIn \in [list : CheckpointLists, spare : 0..MaxSpare]
    /\ maxDigests \in 1..MaxDigestsPerItem
    /\ dgOut = [done |-> FALSE, packets |-> <<>>]

CallGenerateTxDigests ==
    /\ ~dgOut.done
    /\ dgOut' = [done |-> TRUE,
                 packets |-> GenerateTxDigests(cpIn.list, maxDigests, cpIn.spare)]
    /\ UNCHANGED <<cpIn, maxDigests, notDigest>>

NextDigest == CallGenerateTxDigests

(***************************************************************************)
(* wasm provider: one call of runBlockQuery(fromHeight, toHeight) on a host *)
(* with numCPU CPUs, with a coordinator that receives every BlockInfo.      *)
(***************************************************************************)
MaxCPU == 3
MaxFrom == 2
MaxSpan == 5

IdlePipe ==
    [numCPU |-> 1, from |-> 0, to |-> 0, next |-> 0, pc |-> "idle", workers |-> 0,
     taken |-> {}, fetched |-> {}]

\* the Start of the sub-ranges getHeightStream produces for [from, to]
SubRanges(from, to) == {h \in from..(to - 1) : (h - from) % 2 = 0}

InitPipe ==
    /\ \E c \in 1..MaxCPU, f \in 1..MaxFrom, span \in 1..MaxSpan :
          pq = [IdlePipe EXCEPT !.numCPU = c, !.from = f, !.to = f + span]
    /\ pw = <<>>

\* runBlockQuery up to wg.Wait(): getHeightStream, numOfPipelines workers
PipeStart ==
    /\ pq.pc = "idle"
    /\ LET numOfPipelines == getNumOfPipelinesOn(pq.numCPU, (pq.to - pq.from) \div 2)
       IN  /\ pq' = [pq EXCEPT !.pc = "running", !.next = pq.from,
                               !.workers = numOfPipelines]
           /\ pw' = [w \in 1..numOfPipelines |-> [pc |-> "range", start |-> 0]]
    /\ UNCHANGED notPipe

\* a worker's `for heightRange := range heightStream`
PipeTake(w) ==
    /\ pq.pc = "running"
    /\ pw[w].pc = "range"
    /\ IF pq.next < pq.to
       THEN /\ pw' = [pw EXCEPT ![w] = [pc |-> "fetch", start |-> pq.next]]
            /\ pq' = [pq EXCEPT !.next = @ + 2, !.taken = @ \cup {pq.next}]
       ELSE /\ pw' = [pw EXCEPT ![w] = [pc |-> "done", start |-> 0]]
            /\ UNCHANGED pq
    /\ UNCHANGED notPipe

\* the worker calls fetchBlockMessages; on an error it continues with the
\* next sub-range, else it sends the BlockInfo
PipeFetch(w, ok) ==
    /\ pq.pc = "running"
    /\ pw[w].pc = "fetch"
    /\ pq' = [pq EXCEPT !.fetched = @ \cup {pw[w].start}]
    /\ pw' = [pw EXCEPT ![w].pc = IF ok THEN "send" ELSE "range"]
    /\ UNCHANGED notPipe

\* the send on blockInfoChan
PipeSend(w) ==
    /\ pq.pc = "running"
    /\ pw[w].pc = "send"
    /\ pw' = [pw EXCEPT ![w].pc = "range"]
    /\ UNCHANGED <<pq, notPipe>>

\* wg.Wait() is over: return toHeight + 1; the deferred close(done) stops
\* getHeightStream's goroutine
PipeReturn ==
    /\ pq.pc = "running"
    /\ \A w \in 1..pq.workers : pw[w].pc = "done"
    /\ pq' = [pq EXCEPT !.pc = "returned", !.next = pq.to + 1]
    /\ UNCHANGED <<pw, notPipe>>

NextPipe ==
    \/ PipeStart
    \/ \E w \in DOMAIN pw : PipeTake(w)
    \/ \E w \in DOMAIN pw, ok \in BOOLEAN : PipeFetch(w, ok)
    \/ \E w \in DOMAIN pw : PipeSend(w)
    \/ PipeReturn

\* the parts at rest, for the specifications of the other parts
QuietWait == InitWait /\ strategy = "subscribe"
QuietListen ==
    /\ InitListen
    /\ cfgStart = 0
    /\ cursor = 0
    /\ \A h \in Heights : blocks[h] = "none"

QuietDecode == decIn = <<>> /\ decOut = NoDecode
QuietFetch == InitFetch /\ resultTxList = <<>>
QuietStart ==
    /\ entry = [chain |-> "wasm", cfg |-> 0, latestHeight |-> 1, lastSavedHeight |-> 0]
    /\ started = NotStarted
QuietSearch == InitSearch /\ totalPages = [f \in Filters |-> 1]
QuietStream == InitStream /\ sHeights.to = 2 /\ rootCtx = FALSE
QuietConfig ==
    /\ chainCfg = [chain |-> "wasm", minGas |-> MinGasAmount, maxGas |-> MaxGasAmount,
                   contractsValid |-> TRUE]
    /\ prv = NewProviderState

QuietRelay == InitRelay /\ inflight = [k \in Keys |-> Absent]
QuietDigest ==
    /\ cpIn = [list |-> <<>>, spare |-> 0]
    /\ maxDigests = 1
    /\ dgOut = [done |-> FALSE, packets |-> <<>>]
QuietPipe == pq = IdlePipe /\ pw = <<>>
QuietLate == QuietRelay /\ QuietDigest /\ QuietPipe

InitSpecWasm == InitWasm /\ InitEvm /\ QuietWait /\ QuietListen /\ QuietDecode /\ QuietFetch /\ QuietStart /\ QuietSearch
        /\ QuietStream /\ QuietConfig /\ QuietLate
InitSpecEvm == InitWasm /\ InitEvm /\ QuietWait /\ QuietListen /\ QuietDecode /\ QuietFetch /\ QuietStart /\ QuietSearch
        /\ QuietStream /\ QuietConfig /\ QuietLate
InitSpecWait == InitWasm /\ InitEvm /\ InitWait /\ QuietListen /\ QuietDecode /\ QuietFetch /\ QuietStart /\ QuietSearch
        /\ QuietStream /\ QuietConfig /\ QuietLate
InitSpecListen == InitWasm /\ InitEvm /\ QuietWait /\ InitListen /\ QuietDecode /\ QuietFetch /\ QuietStart /\ QuietSearch
        /\ QuietStream /\ QuietConfig /\ QuietLate
InitSpecDecode ==
    InitWasm /\ InitEvm /\ QuietWait /\ QuietListen /\ InitDecode /\ QuietFetch /\ QuietStart /\ QuietSearch
        /\ QuietStream /\ QuietConfig /\ QuietLate
InitSpecFetch ==
    InitWasm /\ InitEvm /\ QuietWait /\ QuietListen /\ QuietDecode /\ InitFetch /\ QuietStart /\ QuietSearch
        /\ QuietStream /\ QuietConfig /\ QuietLate
InitSpecStart ==
    InitWasm /\ InitEvm /\ QuietWait /\ QuietListen /\ QuietDecode /\ QuietFetch /\ InitStart /\ QuietSearch
        /\ QuietStream /\ QuietConfig /\ QuietLate
InitSpecSearch ==
    InitWasm /\ InitEvm /\ QuietWait /\ QuietListen /\ QuietDecode /\ QuietFetch /\ QuietStart /\ InitSearch
        /\ QuietStream /\ QuietConfig /\ QuietLate
InitSpecStream ==
    InitWasm /\ InitEvm /\ QuietWait /\ QuietListen /\ QuietDecode /\ QuietFetch /\ QuietStart /\ QuietSearch
        /\ InitStream /\ rootCtx = FALSE /\ QuietConfig /\ QuietLate
InitSpecConfig ==
    InitWasm /\ InitEvm /\ QuietWait /\ QuietListen /\ QuietDecode /\ QuietFetch /\ QuietStart /\ QuietSearch
        /\ QuietStream /\ InitConfig /\ QuietLate
InitSpecCancel ==
    InitWasm /\ InitEvm /\ QuietWait /\ InitCancel /\ QuietDecode /\ QuietFetch /\ QuietStart /\ QuietSearch
        /\ QuietStream /\ QuietConfig /\ QuietLate
InitSpecRelay ==
    InitWasm /\ InitEvm /\ QuietWait /\ QuietListen /\ QuietDecode /\ QuietFetch /\ QuietStart /\ QuietSearch
        /\ QuietStream /\ QuietConfig /\ InitRelay /\ QuietDigest /\ QuietPipe
InitSpecDigest ==
    InitWasm /\ InitEvm /\ QuietWait /\ QuietListen /\ QuietDecode /\ QuietFetch /\ QuietStart /\ QuietSearch
        /\ QuietStream /\ QuietConfig /\ QuietRelay /\ InitDigest /\ QuietPipe
InitSpecPipe ==
    InitWasm /\ InitEvm /\ QuietWait /\ QuietListen /\ QuietDecode /\ QuietFetch /\ QuietStart /\ QuietSearch
        /\ QuietStream /\ QuietConfig /\ QuietRelay /\ QuietDigest /\ InitPipe
Init == InitSpecWasm

(***************************************************************************)
(* Claims about the transaction-result waiter.                             *)
(***************************************************************************)
\* C8: a wait result whose error is the deadline-exceeded error is never
\* reported to the Route callback as a delivery (a call with a nil error).
C8_TimeoutNotReportedAsDelivery ==
    \A k \in 1..Len(callbacks) :
        callbacks[k].of.err = "deadline" => callbacks[k].err # "nil"

\* C9: in both strategies the result channel is closed only after it has
\* carried exactly one value; it is never closed with none and never
\* carries two.
C9_ExactlyOneResultThenClose ==
    /\ Len(txResChan.got) <= 1
    /\ txResChan.closed => Len(txResChan.got) = 1

\* C10: a wait whose transaction is not included within max_wait reaches the
\* timeout: its channel is eventually closed, even when the parent ctx is never
\* cancelled and no inclusion event ever arrives.
C10_WaitReachesTimeout ==
    (twPc = "loop" /\ Expired /\ included = "no") ~> txResChan.closed

(***************************************************************************)
(* Claims about the EVM Route lock.                                        *)
(***************************************************************************)
\* C2: every call of the EVM Route has released the route lock when it
\* returns, on every return path, so a later Route call can acquire it.
C2_LockReleasedOnReturn ==
    \A j \in EvmCallers :
        ev[j].pc \in {"ret_ok", "ret_err"} => globalRouteLock # j

(***************************************************************************)
(* Claims about the wasm transaction submission.                           *)
(***************************************************************************)
\* the sequences of the accepted broadcasts, in broadcast order
RECURSIVE AcceptedSeqs(_)
AcceptedSeqs(log) ==
    IF log = <<>> THEN <<>>
    ELSE IF Head(log).ok THEN <<Head(log).seq>> \o AcceptedSeqs(Tail(log))
    ELSE AcceptedSeqs(Tail(log))

\* two Route calls ran concurrently and both returned nil, nothing else having
\* signed with the wallet
BothRouted ==
    /\ \A i \in Routes : rt[i].op = "route" /\ rt[i].pc = "ret_ok"
    /\ extTx = 0

\* C1: two concurrent Route calls on one wallet whose cached sequence is s
\* broadcast with s and s+1, in that order, and leave the cached sequence at
\* s+2, for every interleaving of the two calls.
C1_ConcurrentRoutesSequenced ==
    BothRouted =>
        /\ AcceptedSeqs(bcast) = <<InitSeq, InitSeq + 1>>
        /\ \A k \in 1..Len(bcast) : bcast[k].ok
        /\ wSeq = InitSeq + 2

\* the broadcasts of caller i, in order
BcastBy(i) == SelectSeq(bcast, LAMBDA b : b.by = i)
\* no other caller has started: the call of i does not overlap another
Alone(i) == \A j \in Routes \ {i} : rt[j].pc = "idle"

C12_OtherErrorPropagates ==
    \A i \in Routes :
        LET B == BcastBy(i) IN
        (rt[i].op = "route" /\ Len(B) >= 1 /\ B[1].err = "broadcast_failed") =>
            /\ Len(B) = 1
            /\ ~rt[i].refreshed
            /\ rt[i].pc = "ret_err"
            /\ rt[i].err = "broadcast_failed"
            /\ rt[i].cb = "none"
            /\ Alone(i) => wSeq = B[1].seq

\* a Route alone whose only broadcast failed for another reason than the
\* sequence
C12_Witness ==
    \E i \in Routes :
        /\ Alone(i) /\ rt[i].op = "route" /\ rt[i].pc = "ret_err"
        /\ Len(BcastBy(i)) = 1
        /\ BcastBy(i)[1].err = "broadcast_failed"
        /\ wSeq = BcastBy(i)[1].seq

\* C13: after a successful broadcast, through Route or through a control
\* operation, the cached sequence is the sequence of that broadcast plus 1
\* (checked when the submission has returned, for a submission that does
\* not overlap another one).
C13_SequenceIncrementedOnSuccess ==
    \A i \in Routes :
        LET B == BcastBy(i) IN
        (Alone(i) /\ rt[i].pc = "ret_ok" /\ Len(B) >= 1 /\ B[Len(B)].ok) =>
            wSeq = B[Len(B)].seq + 1

\* One submission on a wasm provider and one on an EVM provider, each by a
\* single caller.
NextSubmit ==
    \/ \E op \in {"route", "control"} : \E evt \in MessagesOf(op) :
          \E addr \in AddressesOf(op, evt) : RouteStart(1, op, evt, addr)
    \/ sendMessage(1)
    \/ \E g \in GasValues : pushEstimate(1, g)
    \/ pushBroadcast(1)
    \/ handleSequence(1)
    \/ RouteReadSeq(1)
    \/ RouteSetSeq(1)
    \/ RouteWait(1)
    \/ ExternalTx
    \/ \E prov \in EvmProviders, evt \in EventKinds, hasCb \in BOOLEAN :
          EvmRouteLock(1, prov, evt, hasCb)
    \/ \E prov \in EvmProviders, admin \in Addresses : EvmSetAdmin(1, prov, admin)
    \/ EvmSetAdminWait(1)
    \/ EvmGetOpts(1)
    \/ \E g \in EvmGasValues : EvmSend(1, g)
    \/ EvmWaitNoCallback(1)
    \/ EvmWaitPoll(1)

SpecSubmit == InitSpecWasm /\ [][NextSubmit]_vars

\* C14: a submission whose estimated gas is below min_gas or above max_gas
\* is rejected with an error before anything is broadcast and leaves the
\* cached sequence unchanged; a submission whose estimated gas is within
\* the bounds is not rejected by the gas check (wasm and EVM).
C14_GasBoundsChecked ==
    /\ \A i \in Routes :
          /\ rt[i].pc = "bcast" => rt[i].gas \in MinGasAmount..MaxGasAmount
          /\ rt[i].err = "gas_bounds" =>
                /\ rt[i].gas \notin MinGasAmount..MaxGasAmount
                /\ rt[i].pc = "ret_err"
                /\ Len(BcastBy(i)) = rt[i].tries - 1
                /\ wSeq = rt[i].seq
    /\ \A j \in EvmCallers :
          /\ ev[j].pc \in {"wait", "ret_ok"} => ev[j].gas \in GasMin..GasLimit
          /\ ev[j].err = "gas_bounds" =>
                /\ ev[j].gas \notin GasMin..GasLimit
                /\ ev[j].op = "route" => ev[j].pc = "ret_err"
                /\ \A k \in 1..Len(evSent) : evSent[k].by # j

\* a wasm submission rejected for gas above the maximum and an EVM
\* submission rejected for gas below the minimum, and nothing sent
C14_Witness ==
    /\ rt[1].err = "gas_bounds" /\ rt[1].gas > MaxGasAmount /\ bcast = <<>>
    /\ ev[1].err = "gas_bounds" /\ ev[1].gas < GasMin /\ evSent = <<>>

\* the dispatch table: contract and encoding of each event kind
DispatchTable ==
    [e \in KnownEvents |->
        CASE e = "CallMessage" -> [contract |-> "xcall", method |-> "ExecuteCall"]
          [] e = "EmitMessage" -> [contract |-> "connection", method |-> "ReceiveMessage"]
          [] e = "RevertMessage" -> [contract |-> "connection", method |-> "RevertMessage"]
          [] e = "SetAdmin" -> [contract |-> "connection", method |-> "SetAdmin"]
          [] e = "SetFee" -> [contract |-> "connection", method |-> "SetFee"]
          [] e = "ClaimFee" -> [contract |-> "connection", method |-> "ClaimFee"]
          [] e = "ExecuteRollback" -> [contract |-> "xcall", method |-> "ExecuteRollback"]]

\* C15: the event-kind dispatch is total and matches the table: every known
\* kind is sent to the table's contract (wasm) with the table's call (EVM)
\* and is never refused as unknown, and a message of another kind makes
\* the submission return an error with nothing broadcast and the cached
\* sequence unchanged.
C15_DispatchMatchesTable ==
    /\ \A k \in 1..Len(bcast) :
          /\ rt[bcast[k].by].evt \in KnownEvents
          /\ bcast[k].contract = DispatchTable[rt[bcast[k].by].evt].contract
    /\ \A i \in Routes :
          /\ rt[i].err = "unknown_event" => rt[i].evt \notin KnownEvents
          /\ (rt[i].pc # "idle" /\ rt[i].evt \notin KnownEvents) =>
                /\ rt[i].pc = "ret_err"
                /\ rt[i].err = "unknown_event"
                /\ BcastBy(i) = <<>>
                /\ wSeq = InitSeq
    /\ \A k \in 1..Len(evSent) :
          /\ evSent[k].evt \in KnownEvents
          /\ evSent[k].method = DispatchTable[evSent[k].evt].method
    /\ \A j \in EvmCallers :
          /\ ev[j].err = "unknown_event" => ev[j].evt \notin KnownEvents
          /\ (ev[j].pc \in {"wait", "ret_ok", "ret_err"} /\ ev[j].evt \notin KnownEvents) =>
                /\ ev[j].pc = "ret_err"
                /\ \A k \in 1..Len(evSent) : evSent[k].by # j

\* an ExecuteRollback broadcast to the xcall contract, and an EVM
\* submission of an unknown kind refused by the switch
C15_Witness ==
    /\ \E k \in 1..Len(bcast) :
          /\ rt[bcast[k].by].evt = "ExecuteRollback"
          /\ bcast[k].contract = "xcall"
          /\ bcast[k].ok
    /\ ev[1].err = "unknown_event"

\* C16: SetAdmin(a) submits a SetAdmin transaction to the connection
\* contract whose address argument is a, on the wasm and on the EVM
\* provider (a is the address the caller gave: the wasm SetAdmin keeps it
\* in message.Src, the EVM SetAdmin in message.Dst).
C16_SetAdminAddressReachesBody ==
    /\ \A k \in 1..Len(bcast) :
          LET r == rt[bcast[k].by] IN
          (r.op = "control" /\ r.evt = "SetAdmin") =>
              /\ bcast[k].contract = "connection"
              /\ bcast[k].addr = r.src
    /\ \A k \in 1..Len(evSent) :
          LET e == ev[evSent[k].by] IN
          e.op = "setadmin" =>
              /\ evSent[k].method = "SetAdmin"
              /\ evSent[k].addr = e.dst

SpecWasm == InitSpecWasm /\ [][NextWasm]_vars

SpecEvm == InitSpecEvm /\ [][NextEvm]_vars

\* the Go scheduler runs every goroutine that can take a step, and time passes;
\* nothing forces the chain to include the transaction or the ctx to be cancelled
SpecWait == InitSpecWait /\ [][NextWait]_vars /\ WF_vars(WaiterStep) /\ WF_vars(ClockTick)

\* the BlockInfos the catch-up workers sent in this run of the Listener
CatchUp == {b \in emitted : b.by = "catchup"}

\* C3: in a run of the wasm Listener no height is emitted both by catch-up
\* and by the realtime subscription, and the subscription only delivers
\* heights >= latest_height + 1 (latest_height as read at listener entry);
\* stated for the runs in which no fetch failed.
C3_NoHeightEmittedTwice ==
    unfetched = {} =>
        /\ \A a, b \in emitted :
               ~(a.by = "catchup" /\ b.by = "sub" /\ a.height = b.height)
        /\ \A b \in emitted : b.by = "sub" => b.height >= ls.latestHeight + 1

\* C4: the catch-up pipeline over [from, to] emits, for every height with a
\* matching event, exactly one BlockInfo of that height carrying exactly
\* that height's messages; no message is emitted in two BlockInfos and no
\* BlockInfo carries messages of another height than its own.
C4_OneBlockInfoPerHeight ==
    /\ \A b \in CatchUp : b.msgs \subseteq {b.height}
    /\ \A a, b \in CatchUp : a # b => a.msgs \cap b.msgs = {}
    /\ ls.ran =>
          \A h \in ls.qFrom..ls.latestHeight :
              blocks[h] = "msg" =>
                  /\ Cardinality({b \in CatchUp : b.height = h}) = 1
                  /\ BlockInfo(h, {h}, "catchup") \in CatchUp

\* C5: runBlockQuery has not returned to+1 while a sub-range whose fetch
\* failed has not been fetched successfully (a worker retries a failed
\* sub-range until it succeeds).
C5_FailedRangeRetriedBeforeReturn ==
    ls.ran => unfetched = {}

\* C6: the dispatcher puts the messages of a BlockInfo of height H before it
\* sets the cursor to H: the cursor is never H while a message of the block
\* in hand is not in the store.
C6_PutBeforeSetCursor ==
    (co.pc = "persist" /\ cursor = co.block.height) =>
        co.block.msgs \subseteq store

\* C7: every matching event at a height the cursor has passed (from the
\* first start height on; a restart from the cursor no longer fetches it)
\* is in the store, whatever the order in which the BlockInfos of the
\* catch-up workers arrive.  Stated for the moments at which the
\* dispatcher has no block in hand, before any crash, with no failed
\* fetch and only catch-up BlockInfos sent, so that it does not rest on
\* C3, C5 or C6.
C7_CommittedHeightsPersisted ==
    (co.pc = "recv" /\ origin > 0 /\ unfetched = {} /\ crashes = 0
        /\ emitted = CatchUp) =>
        \A h \in (origin + 1)..cursor :
            (h <= head /\ blocks[h] = "msg") => h \in store

SpecListen == InitSpecListen /\ [][NextListen]_vars

(***************************************************************************)
(* The event decoder.                                                       *)
(***************************************************************************)
SpecDecode == InitSpecDecode /\ [][NextDecode]_vars

\* the attribute table, read by key
IsWasmMessage(e) == e.type = "wasm-Message"
ValueOf(e, k) ==
    LET i == CHOOSE i \in 1..Len(e.attributes) : e.attributes[i].key = k
    IN  e.attributes[i].value
BytesOf(v) ==
    CASE v = "0x0102" -> <<1, 2>>
      [] v = "aa" -> <<170>>
      [] v = "0xaa" -> <<170>>
NumberOf(v) ==
    CASE v = "7" -> 7
      [] v = "42" -> 42
TableMessage(e) ==
    IF ValueOf(e, "_contract_address") = ConnectionContract
    THEN [eventType |-> "EmitMessage", src |-> NID, dst |-> ValueOf(e, "targetNetwork"),
          sn |-> NumberOf(ValueOf(e, "connSn")), reqId |-> 0,
          data |-> BytesOf(ValueOf(e, "msg")), messageHeight |-> 0]
    ELSE [eventType |-> "CallMessage", src |-> ValueOf(e, "from"), dst |-> NID,
          sn |-> 0, reqId |-> NumberOf(ValueOf(e, "reqId")),
          data |-> BytesOf(ValueOf(e, "data")), messageHeight |-> 0]
WasmMessagesOf(evs) == SelectSeq(evs, IsWasmMessage)

\* C17: the decoder maps every wasm-Message event of the connection contract
\* to an EmitMessage (src the own network id, dst targetNetwork, sn connSn,
\* data the bytes of msg) and every one of the xcall contract to a CallMessage
\* (dst the own network id, src from, req_id reqId, data the bytes of data);
\* events of another type give no Message, and the output holds one Message
\* per wasm-Message event, in the order of the input.
C17_DecoderFollowsAttributeTable ==
    LET W == WasmMessagesOf(decIn) IN
    (decOut.done /\ \A k \in 1..Len(W) : W[k] \in ConnectionEvents \cup XcallEvents) =>
        /\ decOut.err = "none"
        /\ Len(decOut.msgs) = Len(W)
        /\ \A k \in 1..Len(W) : decOut.msgs[k] = TableMessage(W[k])

C17_Witness ==
    /\ decOut.done
    /\ Len(decIn) = 2
    /\ decIn[1] \in ConnectionEvents
    /\ decIn[2] \in XcallEvents
    /\ Len(decOut.msgs) = 2
    /\ decOut.msgs[1].eventType = "EmitMessage"
    /\ decOut.msgs[2].eventType = "CallMessage"

\* C38: every Message the wasm decoder emits has event_kind CallMessage or
\* EmitMessage; a wasm-Message event whose _contract_address is missing or
\* is no configured contract yields no Message with an empty kind
C38_EventKindSet ==
    decOut.done =>
        \A n \in 1..Len(decOut.msgs) :
            decOut.msgs[n].eventType \in {"CallMessage", "EmitMessage"}

\* a decoded event of a foreign contract came out as a Message with no kind
C38_EmptyKindEmitted ==
    /\ decOut.done
    /\ decOut.err = "none"
    /\ Len(decIn) = 1
    /\ decIn[1] \in ForeignEvents
    /\ Len(decOut.msgs) = 1
    /\ decOut.msgs[1].eventType = ""

(***************************************************************************)
(* Decoding in the catch-up path and in the subscription path.              *)
(***************************************************************************)
SpecFetch == InitSpecFetch /\ [][NextFetch]_vars

\* a transaction with an attribute value that does not parse
TxMalformed(tx) ==
    \E k \in 1..Len(tx.log) : ParseMessageFromEvents(tx.log[k]).err # "none"
Sent == {blockInfoChan[n] : n \in 1..Len(blockInfoChan)}

\* C18: when an attribute value of a wasm-Message event of a transaction does
\* not parse, no Message of that transaction is sent on the output channel,
\* neither by the catch-up path nor by the subscription path.
C18_NoMessageOfMalformedTx ==
    \A b \in Sent : \A k \in 1..Len(b.msgs) :
        ~TxMalformed(resultTxList[b.srcs[k]])

\* C19: a decode error is scoped to its transaction: once the catch-up worker
\* is through with the fetched sub-range, the messages of every transaction
\* of the sub-range that decodes have been sent, whatever the other
\* transactions of the sub-range hold.
C19_OtherTransactionsStillEmitted ==
    fetchPc # "fetch" =>
        \A t \in 1..Len(resultTxList) :
            ~TxMalformed(resultTxList[t]) =>
                \E b \in Sent :
                    /\ b.by = "catchup"
                    /\ \E k \in 1..Len(b.msgs) : b.srcs[k] = t

\* C20: every Message sent on the output channel, by catch-up or by the
\* subscription, has message_height equal to the height of the block its
\* event was observed in.
C20_MessageHeightIsSourceHeight ==
    \A b \in Sent : \A k \in 1..Len(b.msgs) :
        b.msgs[k].messageHeight = resultTxList[b.srcs[k]].height

(***************************************************************************)
(* The start height at Listener entry.                                      *)
(***************************************************************************)
SpecStart == InitSpecStart /\ [][NextStart]_vars

\* C21: with last_saved_height <= latest_height the wasm listener starts at
\* the configured start_height if 0 < start_height < latest_height, else at
\* last_saved_height if 0 < last_saved_height < latest_height, else at
\* latest_height.
C21_StartHeightTable ==
    (started.done /\ entry.chain = "wasm"
        /\ entry.lastSavedHeight <= entry.latestHeight) =>
        /\ ~started.err
        /\ started.startHeight =
              IF 0 < entry.cfg /\ entry.cfg < entry.latestHeight THEN entry.cfg
              ELSE IF 0 < entry.lastSavedHeight
                        /\ entry.lastSavedHeight < entry.latestHeight
                   THEN entry.lastSavedHeight
              ELSE entry.latestHeight

\* a start where the configured height and the saved height are both in
\* range and differ: the configured one wins
C21_Witness ==
    /\ started.done /\ entry.chain = "wasm"
    /\ 0 < entry.cfg /\ entry.cfg < entry.latestHeight
    /\ 0 < entry.lastSavedHeight /\ entry.lastSavedHeight < entry.latestHeight
    /\ entry.cfg # entry.lastSavedHeight
    /\ started.startHeight = entry.cfg

\* C22: whenever last_saved_height > latest_height at entry, the Listener
\* fails with an error at once, whatever the configured start_height is
\* (wasm and sui).
C22_InvalidCursorFails ==
    (started.done /\ entry.lastSavedHeight > entry.latestHeight) => started.err

\* C23: a wasm Listener started with a configured start_height greater than
\* latest_height returns the error instead of starting.
C23_ConfiguredStartAboveLatestFails ==
    (started.done /\ entry.chain = "wasm" /\ entry.cfg > entry.latestHeight) =>
        started.err

\* C24: a wasm Listener started with last_saved_height = latest_height and no
\* configured start_height starts at latest_height, never runs the catch-up
\* pipeline, and sends BlockInfos from the subscription only.
C24_TailModeOnly ==
    (ls.pc \in {"loop", "query"} /\ cfgStart = 0
        /\ ls.lastSavedHeight = ls.latestHeight) =>
        /\ ls.startHeight = ls.latestHeight
        /\ ls.pc = "loop"
        /\ ~ls.ran
        /\ \A b \in emitted : b.by = "sub"

\* such a Listener has sent a BlockInfo of the subscription
C24_Witness ==
    /\ ls.pc = "loop" /\ cfgStart = 0
    /\ ls.lastSavedHeight = ls.latestHeight
    /\ \E b \in emitted : b.by = "sub" /\ b.height > ls.latestHeight

\* C25: the Listener never sends a BlockInfo with an empty message list: a
\* fetched sub-range or a received subscription transaction with no message
\* produces no BlockInfo on the output channel.
C25_NoEmptyBlockInfo ==
    \A b \in Sent : b.msgs # <<>>

(***************************************************************************)
(* fetchBlockMessages and partial results.                                  *)
(***************************************************************************)
SpecSearch == InitSpecSearch /\ [][NextSearch]_vars

\* C26: fetchBlockMessages either returns the messages of every event filter
\* and every result page or returns an error; when a tx_search call failed,
\* no BlockInfo built from the remaining results is sent for the sub-range.
C26_NoPartialResults ==
    /\ (fb.pc \in {"returned", "done"} /\ ~fb.err) => fb.messages = AllTxs
    /\ (fb.pc = "done" /\ fb.failed # {}) => fb.sent = {}

(***************************************************************************)
(* The done channel of the height stream and the block-info stream.         *)
(***************************************************************************)
SpecStream == InitSpecStream /\ [][NextStream]_vars /\ WF_vars(StreamStep)

\* C27: once the done channel is closed, the block-info worker eventually
\* closes its output channel and exits, whatever it is doing at that moment.
C27_WorkerExitsAfterDone ==
    sDone ~> (sWorker.pc = "exited")

(***************************************************************************)
(* Cancellation of the root context and the Listener.                       *)
(***************************************************************************)
SpecCancel == InitSpecCancel /\ [][NextCancel]_vars /\ WF_vars(ListenStep)

\* C28: after the root ctx is cancelled the wasm Listener eventually returns,
\* also when the cancellation comes while catch-up workers are sending
\* BlockInfos and the coordinator has stopped receiving.
C28_ListenerReturnsAfterCancel ==
    rootCtx ~> (ls.pc \in {"returned", "ret_err"})

\* C29: providers of different chains are independent in submission: a Route
\* call in progress on one provider never keeps a Route call on another
\* provider from acquiring its lock.
C29_ProvidersIndependent ==
    \A j \in EvmCallers, k \in EvmCallers :
        (j # k /\ ev[j].op = "route" /\ ev[j].pc \in {"opts", "send"}
            /\ ev[k].pc = "idle") =>
            \A prov \in EvmProviders \ {ev[j].prov} :
                ENABLED EvmRouteLock(k, prov, "EmitMessage", FALSE)

(***************************************************************************)
(* Configuration validation at startup.                                     *)
(***************************************************************************)
SpecConfig == InitSpecConfig /\ [][NextConfig]_vars

\* C30: a chain configuration with max_gas < min_gas is rejected at startup:
\* the provider is not constructed and no Route is attempted under it.
C30_GasBoundsConfigRejected ==
    chainCfg.maxGas < chainCfg.minGas => (prv.pc # "ready" /\ prv.routes = 0)

(***************************************************************************)
(* The coordinator's cursor, under the listener's out-of-order BlockInfos.  *)
(***************************************************************************)
\* C31: the values written to ChainCursor of the source chain never decrease,
\* in whatever order the listener's BlockInfos are delivered.
C31_CursorMonotonic == [][cursor' >= cursor]_vars

\* a BlockInfo below the cursor has gone through the dispatcher's cursor step
C31_Witness ==
    /\ co.pc = "persist"
    /\ co.block.height > 0
    /\ co.block.height < cursor

(***************************************************************************)
(* The coordinator's retry/finality loop.                                   *)
(***************************************************************************)
SpecRelay == InitSpecRelay /\ [][NextRelay]_vars

\* C32: route is never called for a message m while m.message_height +
\* finality_block(src) > latest_height(src), also for messages rescheduled
\* from the store at startup: a message of height MsgHeight is not routed at
\* latest_height = MsgHeight + FinalityBlock - 1.
C32_NoRouteBeforeFinality ==
    /\ \A k \in Keys : routeLog[k].called =>
          routeLog[k].height + FinalityBlock <= routeLog[k].latest
    /\ relay.latest < MsgHeight + FinalityBlock =>
          \A k \in Keys : ~(routeLog[k].called /\ routeLog[k].height = MsgHeight)

\* a message restored from the store is routed at the first final height
C32_Witness ==
    \E k \in Keys :
        /\ routeLog[k].called
        /\ routeLog[k].restored
        /\ routeLog[k].height = MsgHeight
        /\ routeLog[k].latest = MsgHeight + FinalityBlock

\* C33: once the destination's message_received is true for a persisted
\* message, its key leaves the store within one dispatcher tick, whatever
\* the outcome of the route attempts: no attempt made after the receipt ends
\* with the key still in the store.
C33_ReceivedMessageRemoved ==
    \A k \in Keys :
        ~(inflight[k].present /\ inflight[k].pc = "idle" /\ inflight[k].stale)

(***************************************************************************)
(* The Route callback after a successful broadcast.                         *)
(***************************************************************************)
\* C34: for every Route call whose broadcast succeeded and whose callback is
\* non-nil, the callback is invoked exactly once when the wait has reached
\* its terminal result (a receipt, ctx cancellation, or the poll limit); for
\* the EVM provider the error passed is nil exactly when a receipt with
\* successful status was obtained.
C34_CallbackExactlyOnce ==
    /\ \A j \in EvmCallers :
          (ev[j].op = "route" /\ ev[j].hasCb /\ ev[j].pc \in {"ret_ok", "ret_err"}
              /\ \E n \in 1..Len(evSent) : evSent[n].by = j) =>
              /\ ev[j].cb # "none"
              /\ ev[j].cb = "ok" <=> ev[j].pc = "ret_ok"
    /\ (strategy = "subscribe" /\ wfPc = "returned") => Len(callbacks) = 1

(***************************************************************************)
(* sui provider: the packets of GenerateTxDigests.                          *)
(***************************************************************************)
SpecDigest == InitSpecDigest /\ [][NextDigest]_vars

\* C35: each packet holds at most maxDigestsPerItem digests, and every
\* packet but the last holds exactly maxDigestsPerItem.
C35_PacketsFilled ==
    dgOut.done =>
        \A n \in 1..Len(dgOut.packets) :
            /\ Len(dgOut.packets[n].digests) <= maxDigests
            /\ n < Len(dgOut.packets) => Len(dgOut.packets[n].digests) = maxDigests

\* several packets, the last one not full, one checkpoint larger than a packet
C35_Witness ==
    /\ dgOut.done
    /\ Len(dgOut.packets) >= 3
    /\ Len(dgOut.packets[Len(dgOut.packets)].digests) < maxDigests
    /\ \E k \in 1..Len(cpIn.list) : Len(cpIn.list[k].txs) > maxDigests

\* the digests of a list of checkpoints or packets, in order
RECURSIVE DigestsFrom(_, _)
DigestsFrom(lists, k) ==
    IF k > Len(lists) THEN <<>> ELSE lists[k] \o DigestsFrom(lists, k + 1)
InputDigests == DigestsFrom([k \in 1..Len(cpIn.list) |-> cpIn.list[k].txs], 1)
PacketDigests == DigestsFrom([n \in 1..Len(dgOut.packets) |-> dgOut.packets[n].digests], 1)
FirstCheckpoint(pk) == SeqNumbers[CheckpointOf(pk.digests[1])]
LastCheckpoint(pk) == SeqNumbers[CheckpointOf(pk.digests[Len(pk.digests)])]
Packets == {dgOut.packets[n] : n \in 1..Len(dgOut.packets)}

\* C36 as stated: the packets' digests, in packet order, are the checkpoints'
\* transactions in checkpoint order, and each packet's FromCheckpoint and
\* ToCheckpoint are the sequence numbers of the checkpoints of its first and
\* last digest, with FromCheckpoint <= ToCheckpoint.
C36_PacketsCoverCheckpoints ==
    dgOut.done =>
        /\ PacketDigests = InputDigests
        /\ \A pk \in Packets :
              /\ pk.from <= pk.to
              /\ pk.digests # <<>> =>
                    (pk.from = FirstCheckpoint(pk) /\ pk.to = LastCheckpoint(pk))

\* C36 amended: the packets' digests, in packet order, are the checkpoints'
\* transactions in checkpoint order; FromCheckpoint <= ToCheckpoint; each
\* packet's FromCheckpoint is at most the sequence number of the checkpoint
\* of its first digest and its ToCheckpoint at least that of its last
\* digest, with equality when every checkpoint of the list holds a
\* transaction.
C36_PacketsCoverCheckpointsAmended ==
    dgOut.done =>
        /\ PacketDigests = InputDigests
        /\ \A pk \in Packets :
              /\ pk.from <= pk.to
              /\ pk.digests # <<>> =>
                    /\ pk.from <= FirstCheckpoint(pk)
                    /\ pk.to >= LastCheckpoint(pk)
                    /\ (\A k \in 1..Len(cpIn.list) : cpIn.list[k].txs # <<>>) =>
                          (pk.from = FirstCheckpoint(pk) /\ pk.to = LastCheckpoint(pk))

\* a packet that starts inside one checkpoint and ends inside a later one,
\* after a digest list that continued in place on a checkpoint's array
C36_Witness ==
    /\ dgOut.done
    /\ cpIn.spare > 0
    /\ \A k \in 1..Len(cpIn.list) : cpIn.list[k].txs # <<>>
    /\ \E n \in 2..Len(dgOut.packets) :
          /\ dgOut.packets[n].from < dgOut.packets[n].to
          /\ dgOut.packets[n - 1].to = dgOut.packets[n].from

(***************************************************************************)
(* wasm provider: the workers of runBlockQuery.                             *)
(***************************************************************************)
SpecPipe == InitSpecPipe /\ [][NextPipe]_vars

\* C37: for every from < to and every CPU count >= 1, runBlockQuery starts at
\* least one worker and returns to+1 only after every sub-range produced for
\* [from, to] has been taken by a worker and fetched.
C37_RangeNotSkipped ==
    /\ pq.pc # "idle" => pq.workers >= 1
    /\ pq.pc = "returned" =>
          /\ SubRanges(pq.from, pq.to) \subseteq pq.taken
          /\ SubRanges(pq.from, pq.to) \subseteq pq.fetched

\* C39: every transaction SendTransaction of the EVM provider broadcasts
\* carries a gas limit within [gas-min, gas-limit]: the limit placed on the
\* transaction after the gas adjustment never exceeds the configured maximum
C39_GasLimitWithinBounds ==
    \A k \in 1..Len(evSent) :
        ev[evSent[k].by].op # "revert" => evSent[k].gasLimit \in GasMin..GasLimit

\* an estimate within the bounds sent with a limit above the maximum
C39_LimitAboveMaximum ==
    \E k \in 1..Len(evSent) :
        /\ ev[evSent[k].by].op = "route"
        /\ ev[evSent[k].by].gas \in GasMin..GasLimit
        /\ evSent[k].gasLimit > GasLimit

\* the EVM control operations: SetAdmin, the four of Provider that check
\* SendTransaction's error, and RevertMessage of EVMProvider
EvmControlOps == {"setadmin", "control", "revert"}

\* C40: an EVM control operation (SetAdmin, RevertMessage, ClaimFee, SetFee,
\* ExecuteRollback) never crashes on a missing transaction or receipt, returns
\* an error whenever the send or the wait for the receipt failed, and returns
\* nil only when a receipt with status 1 was obtained
C40_ControlOpsReturnErrors ==
    \A j \in EvmCallers :
        ev[j].op \in EvmControlOps =>
            /\ ev[j].pc # "panicked"
            /\ (ev[j].pc = "ret_ok") => (ev[j].err = "none" /\ ev[j].receipt = "ok")

\* SetAdmin crashed after a failed send, and RevertMessage of EVMProvider
\* crashed after a failed wait
C40_ControlOpCrashed ==
    /\ ev[1].op = "setadmin" /\ ev[1].pc = "panicked" /\ ev[1].err = "send_failed"
    /\ ev[2].op = "revert" /\ ev[2].pc = "panicked" /\ ev[2].err = "ctx"

Spec == SpecWasm

=============================================================================
